---------------------------- MODULE Spec2Model ----------------------------
(***************************************************************************)
(* Adaptive Sampling Controller, Parameter Mapper and Constraint Tuner    *)
(* (agent/control.ts), Navigation Mode Arbitrator (DirectorService.choose) *)
(* and its Event Recorder (PerformanceLogger).                             *)
(*                                                                         *)
(* Numbers.  A JavaScript number is a record [k, v]: k = "fin" carries the *)
(* value v in thousandths (Unit = 1.0), k = "nan" / "pinf" / "ninf" are    *)
(* NaN and the two infinities.  Token counts are plain integers.  Results  *)
(* of clamp are always finite and are kept as integers in thousandths.     *)
(* Products are divided back by Unit with integer division (the model      *)
(* truncates where IEEE-754 rounds to nearest).                            *)
(***************************************************************************)
EXTENDS Integers, Sequences, FiniteSets

VARIABLES
    state,        \* controller: the ControlState carried across steps
    telemetry,    \* controller: the Telemetry of the last update ("none" before)
    prevState,    \* controller: the ControlState the last update started from
    updates,      \* controller: number of updates applied
    ctlPc,        \* step loop: "idle", or "updated" while the new state is in use
    lastMode,     \* DirectorService.lastMode ("null", "dom", "vision")
    events,       \* PerformanceLogger.events
    loaded,       \* PerformanceLogger.loaded
    storage,      \* chrome.storage.local[LOG_STORAGE_KEY]: NotArray or a sequence
    call,         \* the choose call last made: its arguments and its storage run
    prevMode,     \* lastMode when that call started
    outcome,      \* what that call produced: a decision or a thrown error
    returnedMode, \* mode of the decision most recently returned to the caller
    calls,        \* number of choose calls made
    dirPc,        \* step loop: "idle", or "called" while the call's result is in use
    history,      \* logger: the events added since the log was last emptied, oldest first
    writeFailed,  \* logger: the last chrome.storage.local.set of the log rejected
    logOp,        \* logger: the PerformanceLogger call last made and what it produced
    logCalls,     \* logger: number of PerformanceLogger calls made
    logPc,        \* logger: "idle", or "called" while the call's result is in use
    mapCall,      \* mapper: the arguments of the directorMap / constraintTuner call
    settings,     \* mapper: the LLMSettings directorMap returned
    tuning,       \* mapper: the ConstraintTuning constraintTuner returned
    mapPc,        \* mapper: "idle", "mapped" or "tuned" while a result is in use
    directorStore,\* settings: the value of the 'director-settings' storage
    generalStore, \* settings: the value of the 'general-settings' storage
    variant,      \* settings: which generalSettingsStore of the sources is in use
    updating,     \* settings: the generalSettingsStore.updateSettings calls in flight
    supplied,     \* settings: the maxSteps most recently passed to updateSettings
    stoCall,      \* settings: the store call last completed and what it returned
    stoCalls,     \* settings: number of store calls issued
    rec,          \* recorder: events, loaded and loadingPromise of each PerformanceLogger
    recStorage,   \* recorder: chrome.storage.local[LOG_STORAGE_KEY]
    tasks,        \* recorder: the PerformanceLogger calls issued, in call order
    ready,        \* recorder: the calls whose await has settled, in the order they resume
    audit         \* recorder: what has happened so far (reads, failed loads, clears, ...)

vars == <<state, telemetry, prevState, updates, ctlPc, lastMode, events, loaded,
          storage, call, prevMode, outcome, returnedMode, calls, dirPc,
          history, writeFailed, logOp, logCalls, logPc,
          mapCall, settings, tuning, mapPc,
          directorStore, generalStore, variant, updating, supplied, stoCall,
          stoCalls, rec, recStorage, tasks, ready, audit>>

ctlVars == <<state, telemetry, prevState, updates, ctlPc>>
dirVars == <<lastMode, events, loaded, storage, call, prevMode, outcome,
             returnedMode, calls, dirPc>>
logVars == <<history, writeFailed, logOp, logCalls, logPc>>
mapVars == <<mapCall, settings, tuning, mapPc>>
stoVars == <<directorStore, generalStore, variant, updating, supplied, stoCall,
             stoCalls>>
recVars == <<rec, recStorage, tasks, ready, audit>>
auxVars == <<stoVars, recVars>>

-----------------------------------------------------------------------------
(* Numbers *)

Unit == 1000

Fin(v) == [k |-> "fin", v |-> v]
NaN == [k |-> "nan", v |-> 0]
PosInf == [k |-> "pinf", v |-> 0]
NegInf == [k |-> "ninf", v |-> 0]

MinOf(a, b) == IF a <= b THEN a ELSE b
MaxOf(a, b) == IF a >= b THEN a ELSE b

\* value > 0 and value >= 0 on a JavaScript number (false for NaN)
GtZero(x) == x.k = "pinf" \/ (x.k = "fin" /\ x.v > 0)
GeZero(x) == x.k = "pinf" \/ (x.k = "fin" /\ x.v >= 0)

\* a / b for a >= 0 and b > 0 (token counts), the quotient in thousandths
Divide(a, b) ==
    IF a.k = "pinf"
    THEN (IF b.k = "pinf" THEN NaN ELSE PosInf)
    ELSE (IF b.k = "pinf" THEN Fin(0) ELSE Fin((a.v * Unit) \div b.v))

-----------------------------------------------------------------------------
(* control.ts *)

ALPHA_SUCCESS == 350
ALPHA_TIMEOUT == 250
ALPHA_LOOP == 200
WEIGHT_FAIL == 700
WEIGHT_TIMEOUT == 200
WEIGHT_LOOP == 250
SNAP_RESET == TRUE
MIN_SUCCESS_EMA == 50
MAX_EMA == 999

clamp(value, min, max) ==
    IF value.k = "nan" THEN min
    ELSE IF value.k = "pinf" THEN max
    ELSE IF value.k = "ninf" THEN min
    ELSE MinOf(MaxOf(value.v, min), max)

\* a faulty ema that trusts the previous value to be in range already
emaUnboundedPrev(prev, sample, alpha) ==
    (alpha * clamp(sample, 0, Unit) + (Unit - alpha) * prev.v) \div Unit

ema(prev, sample, alpha) ==
    LET boundedSample == clamp(sample, 0, Unit)
        boundedPrev == clamp(prev, 0, Unit)
    IN  (alpha * boundedSample + (Unit - alpha) * boundedPrev) \div Unit

\* a glide that follows its input from the start
smoothstepLockstep(value, edge0, edge1) == clamp(Fin(value), 0, Unit)

smoothstep(value, edge0, edge1) ==
    LET t == clamp(Fin(((value - edge0) * Unit) \div (edge1 - edge0)), 0, Unit)
    IN  (((t * t) \div Unit) * (3 * Unit - 2 * t)) \div Unit

frictionBudget(failurePressure, timeoutPressure, loopPressure) ==
    LET numerator == WEIGHT_FAIL * failurePressure
                     + WEIGHT_TIMEOUT * timeoutPressure
                     + WEIGHT_LOOP * loopPressure
        denominator == WEIGHT_FAIL + WEIGHT_TIMEOUT + WEIGHT_LOOP
    IN  clamp(Fin(numerator \div denominator), 0, Unit)

\* Math.pow(x, 0.85) for x = 0.00, 0.01, ..., 1.00, in thousandths
Pow085 ==
    << 0, 20, 36, 51, 65, 78, 92, 104, 117, 129,
       141, 153, 165, 177, 188, 199, 211, 222, 233, 244,
       255, 265, 276, 287, 297, 308, 318, 329, 339, 349,
       359, 370, 380, 390, 400, 410, 420, 430, 439, 449,
       459, 469, 478, 488, 498, 507, 517, 526, 536, 545,
       555, 564, 574, 583, 592, 602, 611, 620, 629, 639,
       648, 657, 666, 675, 684, 693, 702, 711, 720, 729,
       738, 747, 756, 765, 774, 783, 792, 801, 810, 818,
       827, 836, 845, 854, 862, 871, 880, 888, 897, 906,
       914, 923, 932, 940, 949, 957, 966, 974, 983, 991,
       1000 >>

\* Math.pow(x, 0.85) on [0, 1]: the table, linear between its points
pow085(x) ==
    LET i == x \div 10
        r == x % 10
        lo == Pow085[i + 1]
        hi == IF i < 100 THEN Pow085[i + 2] ELSE lo
    IN  lo + ((hi - lo) * r) \div 10

\* a ramp that jumps to full exploration at once
explorationRampStep(value) == IF clamp(value, 0, Unit) > 0 THEN Unit ELSE 0

explorationRamp(value) == pow085(clamp(value, 0, Unit))

DEFAULT_CONTROL_STATE ==
    [emaSuccess |-> Fin(Unit), emaTimeouts |-> Fin(0), emaLoop |-> Fin(0),
     e |-> Fin(0), g |-> Fin(0)]

computeControllerWith(snap, st, tel) ==
    LET successSample == IF tel.lastOutcomeSuccess THEN Fin(Unit) ELSE Fin(0)
        timeoutSample == IF tel.timeoutHappened THEN Fin(Unit) ELSE Fin(0)
        loopSample == clamp(tel.loopScore, 0, Unit)
        emaSuccess == IF tel.lastOutcomeSuccess /\ snap
                      THEN Unit
                      ELSE ema(st.emaSuccess, successSample, ALPHA_SUCCESS)
        emaTimeouts == ema(st.emaTimeouts, timeoutSample, ALPHA_TIMEOUT)
        emaLoop == ema(st.emaLoop, Fin(loopSample), ALPHA_LOOP)
        failurePressure == Unit - clamp(Fin(emaSuccess), MIN_SUCCESS_EMA, MAX_EMA)
        timeoutPressure == emaTimeouts
        loopPressure == emaLoop
        exploration0 == frictionBudget(failurePressure, timeoutPressure, loopPressure)
        exploration ==
            IF GtZero(tel.contextWindow) /\ GeZero(tel.inputTokens)
            THEN LET usageRatio == clamp(Divide(tel.inputTokens, tel.contextWindow), 0, Unit)
                 IN  clamp(Fin(exploration0 + (100 * usageRatio) \div Unit), 0, Unit)
            ELSE exploration0
        e == IF tel.lastOutcomeSuccess /\ snap
             THEN 0 ELSE explorationRamp(Fin(exploration))
        g == IF tel.lastOutcomeSuccess /\ snap
             THEN 0 ELSE smoothstep(e, 550, 900)
    IN  [emaSuccess |-> Fin(emaSuccess), emaTimeouts |-> Fin(emaTimeouts),
         emaLoop |-> Fin(emaLoop), e |-> Fin(e), g |-> Fin(g)]

\* a controller whose snap-reset policy is switched off
computeControllerNoSnap(st, tel) == computeControllerWith(FALSE, st, tel)

computeController(st, tel) == computeControllerWith(SNAP_RESET, st, tel)

-----------------------------------------------------------------------------
(* Parameter Mapper and Constraint Tuner (control.ts) *)

\* IEEE-754 arithmetic on the number records, as far as the mapper uses it
IsZero(a) == a.k = "fin" /\ a.v = 0
IsNeg(a) == a.k = "ninf" \/ (a.k = "fin" /\ a.v < 0)
Neg(a) ==
    IF a.k = "fin" THEN Fin(0 - a.v)
    ELSE IF a.k = "pinf" THEN NegInf
    ELSE IF a.k = "ninf" THEN PosInf
    ELSE NaN

\* a + b
Add(a, b) ==
    IF a.k = "nan" \/ b.k = "nan" THEN NaN
    ELSE IF a.k = "fin" /\ b.k = "fin" THEN Fin(a.v + b.v)
    ELSE IF a.k = "fin" THEN b
    ELSE IF b.k = "fin" THEN a
    ELSE IF a.k = b.k THEN a
    ELSE NaN

\* a * b where the finite product a.v * b.v is worth 1 / scale: nearest
\* multiple of 1 (halves up) when rounded, the floor otherwise
TimesBy(a, b, scale, rounded) ==
    IF a.k = "nan" \/ b.k = "nan" THEN NaN
    ELSE IF a.k = "fin" /\ b.k = "fin"
    THEN Fin(IF rounded THEN (a.v * b.v + scale \div 2) \div scale
             ELSE (a.v * b.v) \div scale)
    ELSE IF IsZero(a) \/ IsZero(b) THEN NaN
    ELSE IF IsNeg(a) = IsNeg(b) THEN PosInf
    ELSE NegInf

\* a * b, both in thousandths
Times(a, b) == TimesBy(a, b, Unit, FALSE)

Roles == {"planner", "navigator"}

\* an adjustTemperature whose boost lowers the temperature
adjustTemperatureInverted(base, exploration, role) ==
    clamp(Add(base, Fin(0 - (((IF role = "planner" THEN 650 ELSE 450) * exploration) \div Unit))),
          0, 2 * Unit)

\* base and the result in thousandths; exploration is the tuned value
adjustTemperature(base, exploration, role) ==
    LET maxBoost == IF role = "planner" THEN 650 ELSE 450
    IN  clamp(Add(base, Fin((maxBoost * exploration) \div Unit)), 0, 2 * Unit)

adjustTopP(base, exploration, role) ==
    LET maxBoost == IF role = "planner" THEN 250 ELSE 180
    IN  clamp(Add(base, Fin((maxBoost * exploration) \div Unit)), 0, Unit)

\* an adjustPenalties without its clamp
adjustPenaltiesUnclamped(base, glide) ==
    LET r == Add(base, Neg(Times(Fin(350), glide)))
    IN  IF r.k = "fin" THEN r.v ELSE 0 - 2 * Unit

\* an adjustPenalties that raises the penalty with glide
adjustPenaltiesRaised(base, glide) ==
    clamp(Add(base, Times(Fin(350), glide)), 0 - 2 * Unit, 2 * Unit)

adjustPenalties(base, glide) ==
    LET relief == Times(Fin(350), glide)
    IN  clamp(Add(base, Neg(relief)), 0 - 2 * Unit, 2 * Unit)

\* a baseline field that is not defined
Undefined == [k |-> "undefined", v |-> 0]

\* an adjustTopK that gives a top_k to a baseline without one
adjustTopKAlways(topK, exploration) ==
    IF topK.k = "undefined"
    THEN Fin(Unit)
    ELSE Fin(clamp(Add(topK, TimesBy(TimesBy(topK, Fin((300 * exploration) \div Unit),
                                             Unit * Unit, TRUE),
                                     Fin(Unit), 1, FALSE)),
                   Unit, 2000 * Unit))

\* topK and the result in thousandths (Undefined when absent); delta is a
\* whole number
adjustTopK(topK, exploration) ==
    IF topK.k = "undefined"
    THEN topK
    ELSE LET delta == TimesBy(topK, Fin((300 * exploration) \div Unit),
                              Unit * Unit, TRUE)
         IN  Fin(clamp(Add(topK, TimesBy(delta, Fin(Unit), 1, FALSE)),
                       Unit, 2000 * Unit))

\* a missing hint read as a full buffer
OrFull(x) == IF x.k = "undefined" THEN Fin(Unit) ELSE x
\* ctx.tokenBufferRatio ?? 0
OrZero(x) == IF x.k = "undefined" THEN Fin(0) ELSE x

\* base and the result in tokens; exploration, glide and the ratio in
\* thousandths
adjustMaxTokens(base, exploration, glide, ctx) ==
    LET blend == Add(Fin((150 * exploration) \div Unit), Times(Fin(100), glide))
        explorationBonus == TimesBy(base, blend, Unit, TRUE)
        tokenBufferRatio == clamp(OrZero(ctx.tokenBufferRatio), 0, Unit)
        bufferBonus == TimesBy(base, Fin((100 * tokenBufferRatio) \div Unit),
                               Unit, TRUE)
    IN  clamp(Add(Add(base, explorationBonus), bufferBonus), 128, 320000)

\* directorMap(role, exploration, glide, defaults, ctx): the LLMSettings,
\* with top_k only when the baseline has one
directorMap(role, exploration, glide, defaults, ctx) ==
    LET baseline == defaults[role]
        tunedExploration == explorationRamp(exploration)
        temperature == adjustTemperature(baseline.temperature, tunedExploration, role)
        topP == adjustTopP(baseline.top_p, tunedExploration, role)
        frequencyPenalty == adjustPenalties(baseline.frequency_penalty, glide)
        presencePenalty == adjustPenalties(baseline.presence_penalty,
                                           Times(glide, Fin(750)))
        topK == adjustTopK(baseline.top_k, tunedExploration)
        maxTokens == adjustMaxTokens(baseline.max_tokens, tunedExploration, glide, ctx)
        common == [temperature |-> Fin(temperature), top_p |-> Fin(topP),
                   frequency_penalty |-> Fin(frequencyPenalty),
                   presence_penalty |-> Fin(presencePenalty),
                   max_tokens |-> Fin(maxTokens)]
    IN  IF topK.k # "undefined"
        THEN [f \in DOMAIN common \cup {"top_k"} |->
                 IF f = "top_k" THEN topK ELSE common[f]]
        ELSE common

\* a square root that is the identity
SqrtIdentity(x) == x

\* Math.sqrt(x) for x in [0, 1], in thousandths (rounded down)
Sqrt(x) == CHOOSE r \in 0..Unit : r * r <= x * Unit /\ x * Unit < (r + 1) * (r + 1)

\* constraintTuner(glide); the two numbers in thousandths
constraintTuner(glide) ==
    LET glideClamped == clamp(glide, 0, Unit)
    IN  [allowCrossDomainExploration |-> glideClamped > 400,
         plannerRelaxation |-> glideClamped,
         navigatorBoldness |-> Sqrt(glideClamped)]

-----------------------------------------------------------------------------
(* PerformanceLogger, called by one caller at a time *)

MAX_EVENTS == 100

\* a cut that keeps the oldest n entries
SliceFirst(s, n) == IF Len(s) > n THEN SubSeq(s, 1, n) ELSE s

\* rawEvents.slice(-MAX_EVENTS)
SliceLast(s, n) == IF Len(s) > n THEN SubSeq(s, Len(s) - n + 1, Len(s)) ELSE s

\* What chrome.storage.local does to one addEvent call: both requests
\* succeed, the get of the initial load rejects, or the set rejects.
StorageRuns == {"ok", "getFails", "setFails"}

\* ensureLoaded: [ok, events, loaded] (ok = FALSE: the promise rejects)
ensureLoaded(evs, isLoaded, stored, io) ==
    IF isLoaded
    THEN [ok |-> TRUE, events |-> evs, loaded |-> TRUE]
    ELSE IF io = "getFails"
    THEN [ok |-> FALSE, events |-> evs, loaded |-> FALSE]
    ELSE [ok |-> TRUE,
          events |-> IF stored.isArray THEN SliceLast(stored.items, MAX_EVENTS) ELSE evs,
          loaded |-> TRUE]

\* addEvent once ensureLoaded has settled as l, pushed being the log with
\* the event appended and cut to its last MAX_EVENTS entries
addEventLoaded(l, pushed, stored, io) ==
    IF ~l.ok
    THEN [ok |-> FALSE, events |-> l.events, loaded |-> l.loaded, storage |-> stored]
    ELSE IF io = "setFails"
    THEN [ok |-> FALSE, events |-> pushed, loaded |-> l.loaded, storage |-> stored]
    ELSE [ok |-> TRUE, events |-> pushed, loaded |-> l.loaded,
          storage |-> [isArray |-> TRUE, items |-> pushed]]

addEventPushed(l, stored, event, io) ==
    addEventLoaded(l, SliceLast(Append(l.events, event), MAX_EVENTS), stored, io)

\* addEvent: [ok, events, loaded, storage] (ok = FALSE: the promise rejects)
addEvent(evs, isLoaded, stored, event, io) ==
    addEventPushed(ensureLoaded(evs, isLoaded, stored, io), stored, event, io)

\* getEvents: [ok, events, loaded, result] (a copy of the log)
getEvents(evs, isLoaded, stored, io) ==
    LET l == ensureLoaded(evs, isLoaded, stored, io)
    IN  [ok |-> l.ok, events |-> l.events, loaded |-> l.loaded,
         result |-> IF l.ok THEN l.events ELSE << >>]

\* clear: [ok, events, loaded, storage]
clear(stored, io) ==
    [ok |-> io # "setFails", events |-> << >>, loaded |-> TRUE,
     storage |-> IF io = "setFails" THEN stored
                 ELSE [isArray |-> TRUE, items |-> << >>]]

-----------------------------------------------------------------------------
(* DirectorService *)

Modes == {"dom", "vision"}

DEFAULT_CTL ==
    [visionScoreOffset |-> 50, hysteresisMargin |-> 80, preferDomOnTie |-> TRUE]

\* { ...DEFAULT_CTL, ...ctlOptions }: options holds the fields the caller gave
MergeCtl(options) ==
    [f \in DOMAIN DEFAULT_CTL |->
        IF f \in DOMAIN options THEN options[f] ELSE DEFAULT_CTL[f]]

\* a score adjustment that adds the offset whatever the mode
normalizedScoreAllModes(proposal, ctl) == proposal.score + ctl.visionScoreOffset

\* a score adjustment that forgets the offset
normalizedScoreRaw(proposal, ctl) == proposal.score

normalizedScore(proposal, ctl) ==
    IF proposal.mode = "vision"
    THEN proposal.score + ctl.visionScoreOffset
    ELSE proposal.score

\* a score map in which the first proposal of a mode wins
RECURSIVE scoresOfFirstWins(_, _)
scoresOfFirstWins(proposals, ctl) ==
    IF proposals = << >>
    THEN [m \in Modes |-> 0]
    ELSE LET first == proposals[1]
             after == scoresOfFirstWins(Tail(proposals), ctl)
         IN  [after EXCEPT ![first.mode] = normalizedScore(first, ctl)]
\* scores[proposal.mode] = normalizedScore, proposal after proposal
RECURSIVE scoresOf(_, _)
scoresOf(proposals, ctl) ==
    IF proposals = << >>
    THEN [m \in Modes |-> 0]
    ELSE LET last == proposals[Len(proposals)]
             before == scoresOf(SubSeq(proposals, 1, Len(proposals) - 1), ctl)
         IN  [before EXCEPT ![last.mode] = normalizedScore(last, ctl)]

RECURSIVE InsertSorted(_, _)
InsertSorted(s, x) ==
    IF s = << >> THEN <<x>>
    ELSE IF Head(s).score >= x.score
    THEN <<Head(s)>> \o InsertSorted(Tail(s), x)
    ELSE <<x>> \o s

\* Array.prototype.sort((a, b) => b.score - a.score): descending and stable
RECURSIVE SortDesc(_)
SortDesc(s) ==
    IF s = << >> THEN << >>
    ELSE InsertSorted(SortDesc(SubSeq(s, 1, Len(s) - 1)), s[Len(s)])

\* proposals.map(...).sort(...): each proposal with its score replaced by
\* the normalized score
sortedOf(proposals, ctl) ==
    SortDesc([i \in 1..Len(proposals) |->
                [proposals[i] EXCEPT !.score = normalizedScore(proposals[i], ctl)]])

\* sorted.find(candidate => candidate.mode === mode)
FindMode(sorted, mode) ==
    LET hits == {i \in 1..Len(sorted) : sorted[i].mode = mode}
    IN  IF hits = {}
        THEN [found |-> FALSE, at |-> 0]
        ELSE [found |-> TRUE, at |-> CHOOSE i \in hits : \A j \in hits : i <= j]

\* Number.prototype.toFixed(2) of a value in thousandths, in hundredths
ToFixed2(x) == IF x >= 0 THEN (x + 5) \div 10 ELSE 0 - ((5 - x) \div 10)

\* The rationale strings, by template and the values filled in
Rationale(kind, mode, a, b) == [kind |-> kind, mode |-> mode, a |-> a, b |-> b]

\* The selection among the sorted candidates: the override rules of choose
decideSorted(last, sorted, scores, ctl) ==
    LET top == sorted[1]
    IN  IF Len(sorted) > 1
        THEN LET second == sorted[2]
                 diff == top.score - second.score
                 previous == FindMode(sorted, last)
                 domCandidate == FindMode(sorted, "dom")
             IN  IF last # "null" /\ last # top.mode /\ diff < ctl.hysteresisMargin
                 THEN IF previous.found
                      THEN [proposal |-> sorted[previous.at],
                            rationale |-> Rationale("hysteresis", last, ToFixed2(diff), 0),
                            scores |-> scores]
                      ELSE [proposal |-> top, rationale |-> top.rationale,
                            scores |-> scores]
                 ELSE IF diff < 10 /\ ctl.preferDomOnTie
                 THEN IF domCandidate.found
                      THEN [proposal |-> sorted[domCandidate.at],
                            rationale |-> Rationale("tie", "dom", ToFixed2(diff), 0),
                            scores |-> scores]
                      ELSE [proposal |-> top, rationale |-> top.rationale,
                            scores |-> scores]
                 ELSE IF diff >= ctl.hysteresisMargin
                 THEN [proposal |-> top,
                       rationale |-> Rationale("selected", top.mode,
                                               ToFixed2(top.score), ToFixed2(second.score)),
                       scores |-> scores]
                 ELSE [proposal |-> top, rationale |-> top.rationale,
                       scores |-> scores]
        ELSE [proposal |-> top,
              rationale |-> Rationale("only", top.mode, 0, 0),
              scores |-> scores]

\* a choose whose hysteresis keeps the mode that was not the previous one
decideRestless(last, proposals, ctl) ==
    decideSorted(IF last = "dom" THEN "vision"
                 ELSE IF last = "vision" THEN "dom" ELSE last,
                 sortedOf(proposals, ctl), scoresOf(proposals, ctl), ctl)

\* a choose that looks at near-ties before it looks at the previous mode
decideTieFirst(last, proposals, ctl) ==
    decideSorted(IF LET sorted == sortedOf(proposals, ctl)
                    IN  /\ Len(sorted) > 1
                        /\ sorted[1].score - sorted[2].score < 10
                        /\ ctl.preferDomOnTie
                 THEN "null" ELSE last,
                 sortedOf(proposals, ctl), scoresOf(proposals, ctl), ctl)

\* a choose without the hysteresis override
decideNoHysteresis(last, proposals, ctl) ==
    decideSorted("null", sortedOf(proposals, ctl), scoresOf(proposals, ctl), ctl)

\* a choose that always keeps the best-scored candidate
decideTopOnly(last, proposals, ctl) ==
    [proposal |-> sortedOf(proposals, ctl)[1],
     rationale |-> sortedOf(proposals, ctl)[1].rationale,
     scores |-> scoresOf(proposals, ctl)]

\* The synchronous part of choose, for a non-empty proposal list: the
\* selection, its rationale and the score map
decide(last, proposals, ctl) ==
    decideSorted(last, sortedOf(proposals, ctl), scoresOf(proposals, ctl), ctl)

\* an audit event whose note is the proposal's own rationale
PerfEventOfProposalNote(meta, top, rationale) ==
    [taskId |-> meta.taskId, step |-> meta.step, actor |-> "navigator",
     modality |-> top.mode, action |-> "navigator.proposal-select",
     origin |-> "director", outcome |-> "success",
     sessionId |-> meta.taskId, note |-> top.rationale]
\* the PerfEvent choose submits (the timestamp, Date.now(), is left out)
PerfEventOf(meta, top, rationale) ==
    [taskId |-> meta.taskId, step |-> meta.step, actor |-> "navigator",
     modality |-> top.mode, action |-> "navigator.proposal-select",
     origin |-> "director", outcome |-> "success",
     sessionId |-> meta.taskId, note |-> rationale]

NoRationale == Rationale("none", "null", 0, 0)
NoProposal == [mode |-> "null", score |-> 0, payload |-> 0, rationale |-> NoRationale]
NoScores == [m \in Modes |-> 0]
NoOutcome ==
    [kind |-> "none", proposal |-> NoProposal, rationale |-> NoRationale,
     scores |-> NoScores]

\* choose after its await: d the selection made, r what addEvent did
chooseSettled(d, r) ==
    [outcome |-> IF r.ok
                 THEN [kind |-> "decision", proposal |-> d.proposal,
                       rationale |-> d.rationale, scores |-> d.scores]
                 ELSE [NoOutcome EXCEPT !.kind = "rejected"],
     lastMode |-> d.proposal.mode,
     events |-> r.events, loaded |-> r.loaded, storage |-> r.storage]

\* choose from its selection d on: lastMode is set, the event is submitted
chooseLogged(evs, isLoaded, stored, meta, d, io) ==
    chooseSettled(d, addEvent(evs, isLoaded, stored,
                              PerfEventOf(meta, d.proposal, d.rationale), io))

\* a choose that answers an empty list with an empty decision
chooseNullOnEmpty(last, evs, isLoaded, stored, proposals, meta, options, io) ==
    chooseLogged(evs, isLoaded, stored, meta,
                 IF proposals = << >>
                 THEN [proposal |-> NoProposal, rationale |-> NoRationale,
                       scores |-> NoScores]
                 ELSE decide(last, proposals, MergeCtl(options)),
                 io)

\* choose(proposals, meta, ctlOptions) on an instance whose fields are last,
\* evs, isLoaded, over the stored log: what the call produces ("decision":
\* the promise resolves with it; "error": the empty-list Error is thrown;
\* "rejected": the promise rejects with addEvent's error) and the fields and
\* the stored log afterwards
choose(last, evs, isLoaded, stored, proposals, meta, options, io) ==
    IF proposals = << >>
    THEN [outcome |-> [NoOutcome EXCEPT !.kind = "error"],
          lastMode |-> last,
          events |-> evs, loaded |-> isLoaded, storage |-> stored]
    ELSE chooseLogged(evs, isLoaded, stored, meta,
                      decide(last, proposals, MergeCtl(options)), io)

-----------------------------------------------------------------------------
(* Settings stores: directorSettingsStore and generalSettingsStore over    *)
(* createStorage; set(update) with a function applies it to the stored     *)
(* value in one step                                                       *)

\* JavaScript booleans, and the mark of a field a Partial<...> leaves out
True == [k |-> "true", v |-> 0]
False == [k |-> "false", v |-> 0]
Omitted == [k |-> "omitted", v |-> 0]

\* Boolean(x)
ToBoolean(x) ==
    IF \/ x.k = "true"
       \/ x.k \in {"pinf", "ninf"}
       \/ (x.k = "fin" /\ x.v # 0)
    THEN True ELSE False

\* { ...base, ...partial }: partial has the fields of base, Omitted where
\* it leaves one out
Spread(base, partial) ==
    [f \in DOMAIN base |-> IF partial[f] = Omitted THEN base[f] ELSE partial[f]]

\* numbers in thousandths
DEFAULT_DIRECTOR_SETTINGS ==
    [visionScoreOffset |-> Fin(50), hysteresisMargin |-> Fin(80),
     preferDomOnTie |-> True]

\* a clamp that lets NaN through
clampSettingUnguarded(value, min, max) ==
    IF value.k \in {"nan", "undefined"} THEN NaN
    ELSE IF value.k = "pinf" THEN Fin(max)
    ELSE IF value.k = "ninf" THEN Fin(min)
    ELSE Fin(MinOf(max, MaxOf(min, value.v)))

\* clamp of the director settings store: min for NaN; Math.max(min, undefined)
\* is NaN
clampSetting(value, min, max) ==
    IF value.k = "nan" THEN Fin(min)
    ELSE IF value.k = "undefined" THEN NaN
    ELSE IF value.k = "pinf" THEN Fin(max)
    ELSE IF value.k = "ninf" THEN Fin(min)
    ELSE Fin(MinOf(max, MaxOf(min, value.v)))

\* the update function directorSettingsStore.updateSettings passes to set
directorUpdateSettings(prev, partial) ==
    LET merged == Spread(Spread(DEFAULT_DIRECTOR_SETTINGS, prev), partial)
    IN  [visionScoreOffset |-> clampSetting(merged.visionScoreOffset, 0, Unit),
         hysteresisMargin |-> clampSetting(merged.hysteresisMargin, 0, Unit),
         preferDomOnTie |-> ToBoolean(merged.preferDomOnTie)]

\* directorSettingsStore.getSettings over the stored value
directorGetSettings(current) ==
    [visionScoreOffset |-> clampSetting(current.visionScoreOffset, 0, Unit),
     hysteresisMargin |-> clampSetting(current.hysteresisMargin, 0, Unit),
     preferDomOnTie |-> ToBoolean(current.preferDomOnTie)]

\* the three generalSettingsStore sources: "constrained" applies
\* applyVisionConstraints, "forced" also pins minWaitPageLoad, "ratio" has
\* visionNavigationRatio in place of minWaitPageLoad
Variants == {"constrained", "forced", "ratio"}

\* counts and milliseconds as whole numbers, the ratio in thousandths
DEFAULT_GENERAL_SETTINGS(v) ==
    LET common == [maxSteps |-> Fin(100), maxActionsPerStep |-> Fin(5),
                   maxFailures |-> Fin(3), useVision |-> True,
                   useVisionForPlanner |-> True, planningInterval |-> Fin(3),
                   displayHighlights |-> True, replayHistoricalTasks |-> True]
        own == IF v = "ratio" THEN "visionNavigationRatio" ELSE "minWaitPageLoad"
        ownDefault == IF v = "ratio" THEN Fin(100)
                      ELSE IF v = "forced" THEN Fin(0) ELSE Fin(250)
    IN  [f \in DOMAIN common \cup {own} |->
            IF f = own THEN ownDefault ELSE common[f]]

applyVisionConstraints(s) ==
    LET withVision == [s EXCEPT !.useVision = True, !.useVisionForPlanner = True]
    IN  IF ToBoolean(withVision.useVision) = True
           /\ ToBoolean(withVision.displayHighlights) = False
        THEN [withVision EXCEPT !.displayHighlights = True]
        ELSE withVision

\* Number.isFinite(Number(x)) ? Math.min(Math.max(Number(x), 0), 1) : default
normalizedRatio(x) ==
    IF x.k = "fin" THEN Fin(MinOf(MaxOf(x.v, 0), Unit))
    ELSE IF x.k = "true" THEN Fin(Unit)
    ELSE IF x.k = "false" THEN Fin(0)
    ELSE DEFAULT_GENERAL_SETTINGS("ratio").visionNavigationRatio

\* typeof x === 'number' ? Math.min(Math.max(x, 0), 1) : default
readRatio(x) ==
    IF x.k = "fin" THEN Fin(MinOf(MaxOf(x.v, 0), Unit))
    ELSE IF x.k = "pinf" THEN Fin(Unit)
    ELSE IF x.k = "ninf" THEN Fin(0)
    ELSE IF x.k = "nan" THEN NaN
    ELSE DEFAULT_GENERAL_SETTINGS("ratio").visionNavigationRatio

\* the updatedSettings that generalSettingsStore.updateSettings writes, from
\* the currentSettings it has read
generalUpdatedSettings(v, currentSettings, partial) ==
    LET merged == Spread(currentSettings, partial)
    IN  IF v = "constrained" THEN applyVisionConstraints(merged)
        ELSE IF v = "forced"
        THEN [merged EXCEPT !.useVision = True, !.useVisionForPlanner = True,
                            !.minWaitPageLoad = Fin(0),
                            !.replayHistoricalTasks = True]
        ELSE [merged EXCEPT !.useVision = True, !.useVisionForPlanner = True,
                            !.replayHistoricalTasks = True,
                            !.visionNavigationRatio =
                                normalizedRatio(merged.visionNavigationRatio)]

\* generalSettingsStore.getSettings over the stored value
generalGetSettings(v, stored) ==
    LET merged == Spread(DEFAULT_GENERAL_SETTINGS(v), stored)
    IN  IF v = "constrained" THEN applyVisionConstraints(merged)
        ELSE IF v = "forced"
        THEN [merged EXCEPT !.useVision = True, !.useVisionForPlanner = True,
                            !.minWaitPageLoad = Fin(0),
                            !.replayHistoricalTasks = True]
        ELSE [merged EXCEPT !.useVision = True, !.useVisionForPlanner = True,
                            !.replayHistoricalTasks = True,
                            !.visionNavigationRatio =
                                readRatio(stored.visionNavigationRatio)]

\* the callers that may have a generalSettingsStore.updateSettings in flight
Callers == {1, 2}

-----------------------------------------------------------------------------
(* The Arbitrator as the step loop drives it *)

MaxCalls == 1
MaxProposals == 2

\* the candidates a strategy may propose, as <<mode, raw score>>: DOM at
\* 0.455 and 0.500, Vision at 0.450, 0.455 and 0.470
Candidates ==
    {<<"dom", 455>>, <<"dom", 500>>,
     <<"vision", 450>>, <<"vision", 455>>, <<"vision", 470>>}

ProposalOf(mode, score, i) ==
    [mode |-> mode, score |-> score, payload |-> i,
     rationale |-> Rationale("proposal", mode, i, 0)]

\* the proposal lists a caller may pass, the empty one included; the i-th
\* proposal carries payload i
ProposalLists ==
    UNION { { [i \in 1..n |-> ProposalOf(f[i][1], f[i][2], i)] :
                f \in [1..n -> Candidates] } : n \in 0..MaxProposals }

\* the overrides a caller may pass: none, one field, or offset and margin
Overrides ==
    [visionScoreOffset |-> 0, hysteresisMargin |-> 5, preferDomOnTie |-> FALSE]
OptionInputs ==
    { [f \in D |-> Overrides[f]] :
        D \in {{}, {"visionScoreOffset"}, {"hysteresisMargin"}, {"preferDomOnTie"},
               {"visionScoreOffset", "hysteresisMargin"}} }

MetaOf(step) == [taskId |-> "task-1", step |-> step]

\* the stored log a new instance may find: the key unset, or one event of
\* an earlier session
OldEvent ==
    [taskId |-> "task-0", step |-> 9, actor |-> "navigator", modality |-> "dom",
     action |-> "navigator.proposal-select", origin |-> "director",
     outcome |-> "success", sessionId |-> "task-0",
     note |-> Rationale("only", "dom", 0, 0)]
StoredInputs ==
    { [isArray |-> FALSE, items |-> << >>], [isArray |-> TRUE, items |-> <<OldEvent>>] }

InitController0 ==
    /\ state = DEFAULT_CONTROL_STATE
    /\ telemetry = [lastOutcomeSuccess |-> FALSE, timeoutHappened |-> FALSE,
                    loopScore |-> Fin(0), inputTokens |-> Fin(0),
                    contextWindow |-> Fin(0)]
    /\ prevState = state
    /\ updates = 0
    /\ ctlPc = "idle"

\* new DirectorService(): lastMode = null, a PerformanceLogger not yet loaded
InitFresh ==
    /\ lastMode = "null"
    /\ events = << >>
    /\ loaded = FALSE
    /\ storage \in StoredInputs
    /\ returnedMode = "null"

\* an instance that has served step 0 of its task: the state choose leaves
\* after deciding for the only proposal, of mode m
InitServed(m) ==
    \E stored \in {[isArray |-> FALSE, items |-> << >>]} :
        LET r == choose("null", << >>, FALSE, stored,
                        <<ProposalOf(m, 500, 1)>>, MetaOf(0), << >>, "ok")
        IN  /\ lastMode = r.lastMode
            /\ events = r.events
            /\ loaded = r.loaded
            /\ storage = r.storage
            /\ returnedMode = r.outcome.proposal.mode

NoCall ==
    [proposals |-> << >>, options |-> << >>, meta |-> MetaOf(0), storageRun |-> "ok"]

InitIdle ==
    /\ call = NoCall
    /\ prevMode = "null"
    /\ outcome = NoOutcome
    /\ calls = 0
    /\ dirPc = "idle"

\* no PerformanceLogger call has been made from outside choose
NoLogOp == [op |-> "none", io |-> "ok", ok |-> TRUE, result |-> << >>]
InitLogIdle ==
    /\ history = << >>
    /\ writeFailed = FALSE
    /\ logOp = NoLogOp
    /\ logCalls = 0
    /\ logPc = "idle"

\* neither directorMap nor constraintTuner has been called
NoMapCall == [fn |-> "none"]
NoSettings == [temperature |-> Fin(0)]
NoTuning == [plannerRelaxation |-> 0]
InitMapIdle ==
    /\ mapCall = NoMapCall
    /\ settings = NoSettings
    /\ tuning = NoTuning
    /\ mapPc = "idle"

\* no store call has been made
NoStoCall == [fn |-> "none"]
NoUpdate == [pc |-> "idle"]
InitStoresIdle ==
    /\ directorStore = DEFAULT_DIRECTOR_SETTINGS
    /\ variant = "constrained"
    /\ generalStore = DEFAULT_GENERAL_SETTINGS(variant)
    /\ updating = [c \in Callers |-> NoUpdate]
    /\ supplied = [maxSteps |-> Fin(100), reset |-> FALSE, overlapped |-> FALSE]
    /\ stoCall = NoStoCall
    /\ stoCalls = 0

\* the PerformanceLogger instances that share the storage key
Loggers == {1, 2}

\* new PerformanceLogger()
NewLogger == [events |-> << >>, loaded |-> FALSE, loading |-> FALSE,
              reading |-> [isArray |-> FALSE, items |-> << >>]]

\* nothing has happened to the loggers yet
NoAudit ==
    [reads |-> [l \in Loggers |-> 0], failedLoads |-> [l \in Loggers |-> 0],
     clears |-> [l \in Loggers |-> 0], midLoad |-> FALSE, wiped |-> {},
     everPersisted |-> << >>, setOk |-> TRUE, initial |-> << >>]

InitRecIdle ==
    /\ rec = [l \in Loggers |-> NewLogger]
    /\ recStorage = [isArray |-> FALSE, items |-> << >>]
    /\ tasks = << >>
    /\ ready = << >>
    /\ audit = NoAudit

\* nothing but the mapper, the stores and the concurrently used loggers:
\* all idle
InitRestIdle ==
    /\ InitMapIdle
    /\ InitStoresIdle
    /\ InitRecIdle

InitDirector ==
    /\ InitController0
    /\ InitFresh \/ \E m \in Modes : InitServed(m)
    /\ InitIdle
    /\ InitLogIdle
    /\ InitRestIdle

\* choose is called and awaited
Choose(proposals, options, io) ==
    /\ io = "getFails" => ~loaded /\ proposals # << >>
    /\ io = "setFails" => proposals # << >>
    /\ \E r \in {choose(lastMode, events, loaded, storage, proposals,
                         MetaOf(calls + 1), options, io)} :
           /\ call' = [proposals |-> proposals, options |-> options,
                       meta |-> MetaOf(calls + 1), storageRun |-> io]
           /\ prevMode' = lastMode
           /\ outcome' = r.outcome
           /\ lastMode' = r.lastMode
           /\ events' = r.events
           /\ loaded' = r.loaded
           /\ storage' = r.storage
           /\ returnedMode' = IF r.outcome.kind = "decision"
                              THEN r.outcome.proposal.mode
                              ELSE returnedMode
    /\ calls' = calls + 1
    /\ dirPc' = "called"
    /\ UNCHANGED <<ctlVars, logVars, mapVars, auxVars>>

\* the step ends: the call's arguments and result are dropped
DirectorStepEnd ==
    /\ dirPc = "called"
    /\ call' = NoCall
    /\ prevMode' = "null"
    /\ outcome' = NoOutcome
    /\ dirPc' = "idle"
    /\ UNCHANGED <<lastMode, events, loaded, storage, returnedMode, calls>>
    /\ UNCHANGED <<ctlVars, logVars, mapVars, auxVars>>

\* one agent step: the step loop calls choose, one call at a time
DirectorStep ==
    /\ dirPc = "idle"
    /\ calls < MaxCalls
    /\ \E proposals \in ProposalLists, options \in OptionInputs, io \in StorageRuns :
          Choose(proposals, options, io)

NextDirector ==
    \/ DirectorStep
    \/ DirectorStepEnd

SpecDirector == InitDirector /\ [][NextDirector]_vars

-----------------------------------------------------------------------------
(* Properties of the Arbitrator *)

\* the call last made, while its result is in use
Called == dirPc = "called"
Returned == Called /\ outcome.kind = "decision"
Given == call.proposals
Ctl == MergeCtl(call.options)

\* the adjusted score of the i-th proposal given: the raw score, plus
\* visionScoreOffset for Vision
Adjusted(i) ==
    IF Given[i].mode = "vision"
    THEN Given[i].score + Ctl.visionScoreOffset
    ELSE Given[i].score

\* the i-th proposal given comes first in the descending stable order
OnTop(i) ==
    \A k \in 1..Len(Given) :
        Adjusted(k) < Adjusted(i) \/ (Adjusted(k) = Adjusted(i) /\ k >= i)

\* one DOM and one Vision proposal were given
OneOfEach == Len(Given) = 2 /\ Given[1].mode # Given[2].mode
IndexOf(mode) == CHOOSE i \in 1..2 : Given[i].mode = mode

\* C3: with previous mode M and two candidates, one of mode M and one of
\* the other mode whose adjusted score leads by less than hysteresisMargin,
\* the selection (the decision's proposal, and the remembered mode) has mode M.
C3_HysteresisRetainsPrevious ==
    (/\ Called
     /\ prevMode \in Modes
     /\ OneOfEach
     /\ \E i, j \in 1..2 :
           /\ Given[i].mode = prevMode
           /\ Given[j].mode # prevMode
           /\ Adjusted(j) > Adjusted(i)
           /\ Adjusted(j) - Adjusted(i) < Ctl.hysteresisMargin)
    => /\ lastMode = prevMode
       /\ Returned => outcome.proposal.mode = prevMode

\* previous mode DOM, default options, DOM 0.50 and Vision 0.47: DOM stays
C3_Witness ==
    /\ Returned
    /\ prevMode = "dom"
    /\ call.options = << >>
    /\ Given = <<ProposalOf("dom", 500, 1), ProposalOf("vision", 470, 2)>>
    /\ outcome.proposal.mode = "dom"
    /\ outcome.rationale.kind = "hysteresis"

\* a Vision candidate is first in the sorted order and the two best
\* adjusted scores are less than 0.01 apart
VisionOnTopNearTie ==
    \E i, j \in 1..Len(Given) :
        /\ i # j
        /\ Given[i].mode = "vision"
        /\ OnTop(i)
        /\ \A k \in 1..Len(Given) : k # i => Adjusted(k) <= Adjusted(j)
        /\ Adjusted(i) - Adjusted(j) < 10

\* the chosen candidate leads every candidate of mode M by the margin
LeadsPreviousByMargin ==
    \A i \in 1..Len(Given) :
        Given[i].mode = prevMode =>
            outcome.proposal.score - Adjusted(i) >= Ctl.hysteresisMargin

SwitchedAway ==
    /\ Returned
    /\ prevMode \in Modes
    /\ outcome.proposal.mode # prevMode
    /\ \E i \in 1..Len(Given) : Given[i].mode = prevMode

DomOnTopWithinMargin ==
    /\ OnTop(IndexOf("dom"))
    /\ Adjusted(IndexOf("dom")) - Adjusted(IndexOf("vision")) < Ctl.hysteresisMargin

NearTiePreferDom ==
    /\ Returned
    /\ OneOfEach
    /\ Adjusted(1) - Adjusted(2) < 10
    /\ Adjusted(2) - Adjusted(1) < 10
    /\ Ctl.preferDomOnTie

\* C5 as stated: a DOM and a Vision candidate whose adjusted scores differ
\* by less than 0.01, with preferDomOnTie set: the decision has mode DOM.
C5_NearTieSelectsDom == NearTiePreferDom => outcome.proposal.mode = "dom"

\* C5: a DOM and a Vision candidate whose adjusted scores differ by less
\* than 0.01, with preferDomOnTie set: the decision has mode DOM whichever
\* candidate scores higher, except that with previous mode Vision and the DOM
\* candidate sorted first with a lead below hysteresisMargin, hysteresis
\* retains Vision.
C5_NearTieSelectsDomUnlessHysteresis ==
    NearTiePreferDom =>
        IF prevMode = "vision" /\ DomOnTopWithinMargin
        THEN outcome.proposal.mode = "vision"
        ELSE outcome.proposal.mode = "dom"

\* Vision scores higher by 0.005 after adjustment and DOM is returned
C5_Witness ==
    /\ NearTiePreferDom
    /\ Adjusted(IndexOf("vision")) > Adjusted(IndexOf("dom"))
    /\ prevMode = "vision"
    /\ outcome.proposal.mode = "dom"
    /\ outcome.rationale.kind = "tie"

\* C6: choose with an empty proposal list throws its Error and returns no
\* decision; lastMode, the logger's events and loaded flag and the stored log
\* are as before the call, so no audit event is recorded.
C6_EmptyListThrows ==
    [][(dirPc = "idle" /\ dirPc' = "called" /\ call'.proposals = << >>)
        => /\ outcome'.kind = "error"
           /\ lastMode' = lastMode
           /\ events' = events
           /\ loaded' = loaded
           /\ storage' = storage
           /\ returnedMode' = returnedMode]_vars

\* an empty list reaches an instance that remembers Vision and has logged
C6_Witness ==
    /\ Called
    /\ Given = << >>
    /\ outcome.kind = "error"
    /\ prevMode = "vision"
    /\ lastMode = "vision"
    /\ events # << >>

\* C7: when the storage read or write inside addEvent rejects, choose still
\* returns the decision it made.
C7_LogFailureKeepsDecision ==
    (Called /\ Given # << >> /\ call.storageRun # "ok")
    => /\ outcome.kind = "decision"
       /\ outcome.proposal.mode = lastMode

\* C8 as stated: with exactly one proposal, the decision's proposal is that
\* proposal.
C8_SingleProposalReturned ==
    (Returned /\ Len(Given) = 1) => outcome.proposal = Given[1]

\* C8: with exactly one proposal, whatever the previous mode and the
\* options, the decision's proposal is that proposal with its score replaced
\* by the adjusted score (mode, payload and rationale text as given); it is
\* the remembered mode and the rationale is the only-proposal one.
C8_SingleProposalSelected ==
    (Called /\ Len(Given) = 1)
    => /\ lastMode = Given[1].mode
       /\ Returned =>
            /\ outcome.proposal = [Given[1] EXCEPT !.score = Adjusted(1)]
            /\ outcome.rationale = Rationale("only", Given[1].mode, 0, 0)

\* a lone DOM proposal is returned to an instance that remembers Vision
C8_Witness ==
    /\ Returned
    /\ Len(Given) = 1
    /\ Given[1].mode = "dom"
    /\ prevMode = "vision"
    /\ call.options # << >>
    /\ outcome.proposal.payload = 1

\* C9: the remembered last mode is the mode of the decision most recently
\* returned, and is empty while none has been returned.
C9_LastModeIsLastReturned == lastMode = returnedMode

\* C10: with no previous mode, one DOM and one Vision proposal whose
\* adjusted scores differ by at least 0.01, the selection is the candidate
\* with the higher adjusted score.
C10_HigherAdjustedWins ==
    (/\ Called
     /\ prevMode = "null"
     /\ OneOfEach
     /\ \/ Adjusted(1) - Adjusted(2) >= 10
        \/ Adjusted(2) - Adjusted(1) >= 10)
    => LET best == IF Adjusted(1) > Adjusted(2) THEN 1 ELSE 2
       IN  /\ lastMode = Given[best].mode
           /\ Returned =>
                /\ outcome.proposal.payload = best
                /\ outcome.proposal.mode = Given[best].mode
                /\ outcome.proposal.score = Adjusted(best)

\* no previous mode, default options, DOM 0.50 and Vision 0.47: Vision, at 0.52
C10_Witness ==
    /\ Returned
    /\ prevMode = "null"
    /\ call.options = << >>
    /\ Given = <<ProposalOf("dom", 500, 1), ProposalOf("vision", 470, 2)>>
    /\ outcome.proposal.mode = "vision"
    /\ outcome.proposal.score = 520

-----------------------------------------------------------------------------
\* the proposals given that have mode m, by position
OfMode(m) == {i \in 1..Len(Given) : Given[i].mode = m}
LastOfMode(m) == CHOOSE i \in OfMode(m) : \A j \in OfMode(m) : j <= i

\* C11: the scores map of a returned decision holds, for each mode that has
\* a proposal, the adjusted score of the last proposal of that mode,
\* whichever candidate is selected.
C11_ScoresMapIsAdjusted ==
    Returned =>
        \A m \in Modes :
            OfMode(m) # {} => outcome.scores[m] = Adjusted(LastOfMode(m))

\* two Vision proposals with different scores were given and the first,
\* better one was selected: the map holds the second one's adjusted score
C11_Witness ==
    /\ Returned
    /\ Len(Given) = 2
    /\ OfMode("vision") = {1, 2}
    /\ Given[1].score > Given[2].score
    /\ outcome.proposal.payload = 1
    /\ outcome.scores["vision"] = Adjusted(2)
    /\ outcome.scores["vision"] # outcome.proposal.score

\* the in-memory log as addEvent finds it once loaded
LogOnceLoaded ==
    IF loaded \/ ~storage.isArray THEN events ELSE storage.items

\* C12: a choose call that returns a decision has appended exactly one
\* audit event to the log (in memory and as stored); its taskId and step are
\* the call's, its modality is the mode of the returned proposal and its note
\* is the returned rationale.
C12_OneAuditEventPerDecision ==
    [][(dirPc = "idle" /\ dirPc' = "called" /\ outcome'.kind = "decision")
        => /\ Len(events') = Len(LogOnceLoaded) + 1
           /\ SubSeq(events', 1, Len(LogOnceLoaded)) = LogOnceLoaded
           /\ storage' = [isArray |-> TRUE, items |-> events']
           /\ LET ev == events'[Len(events')]
              IN  /\ ev.taskId = call'.meta.taskId
                  /\ ev.step = call'.meta.step
                  /\ ev.modality = outcome'.proposal.mode
                  /\ ev.note = outcome'.rationale]_vars

\* a hysteresis decision has been logged after an earlier event
C12_Witness ==
    /\ Returned
    /\ outcome.rationale.kind = "hysteresis"
    /\ Len(events) = 2
    /\ events[2].note = outcome.rationale
    /\ events[2].modality = prevMode
    /\ events[2].step = 1

-----------------------------------------------------------------------------
(* The controller as the step loop drives it *)

MaxUpdates == 2

\* loopScore values a caller may pass: in range, out of range, NaN, infinite
LoopScores == {NaN, PosInf, NegInf, Fin(-500), Fin(900), Fin(1500)}
\* inputTokens and contextWindow values (token counts)
TokenCounts == {NaN, Fin(-1), Fin(500), PosInf}
WindowSizes == {NaN, Fin(-1), Fin(0), Fin(1000), PosInf}

Telemetries ==
    [lastOutcomeSuccess : BOOLEAN, timeoutHappened : BOOLEAN,
     loopScore : LoopScores, inputTokens : TokenCounts,
     contextWindow : WindowSizes]

NoTelemetry ==
    [lastOutcomeSuccess |-> FALSE, timeoutHappened |-> FALSE,
     loopScore |-> Fin(0), inputTokens |-> Fin(0), contextWindow |-> Fin(0)]

\* a service not yet used, over an unset storage key
InitDirector0 ==
    /\ lastMode = "null"
    /\ events = << >>
    /\ loaded = FALSE
    /\ storage = [isArray |-> FALSE, items |-> << >>]
    /\ returnedMode = "null"
    /\ InitIdle
    /\ InitLogIdle
    /\ InitRestIdle

Uniform(x) == [emaSuccess |-> x, emaTimeouts |-> x, emaLoop |-> x, e |-> x, g |-> x]

\* ControlStates a caller may pass as the previous state: the default one and
\* states whose fields are NaN, infinite or out of range
StateInputs ==
    {DEFAULT_CONTROL_STATE, Uniform(NaN), Uniform(PosInf), Uniform(NegInf),
     Uniform(Fin(-500)), Uniform(Fin(1700)), Uniform(Fin(400))}

InitController ==
    /\ state \in StateInputs
    /\ telemetry = NoTelemetry
    /\ prevState = state
    /\ updates = 0
    /\ ctlPc = "idle"
    /\ InitDirector0

\* state = computeController(state, telemetry)
Update(tel) ==
    /\ state' = computeController(state, tel)
    /\ prevState' = state
    /\ telemetry' = tel
    /\ updates' = updates + 1
    /\ ctlPc' = "updated"
    /\ UNCHANGED <<dirVars, logVars, mapVars, auxVars>>

\* the step ends: its telemetry and the replaced state are dropped
StepEnd ==
    /\ ctlPc = "updated"
    /\ prevState' = state
    /\ telemetry' = NoTelemetry
    /\ ctlPc' = "idle"
    /\ UNCHANGED <<state, updates>>
    /\ UNCHANGED <<dirVars, logVars, mapVars, auxVars>>

\* one agent step: the step loop feeds the step's telemetry to the controller
ControllerStep ==
    /\ ctlPc = "idle"
    /\ updates < MaxUpdates
    /\ \E tel \in Telemetries : Update(tel)

NextController ==
    \/ ControllerStep
    \/ StepEnd

SpecController == InitController /\ [][NextController]_vars

InUnit(x) == x.k = "fin" /\ 0 <= x.v /\ x.v <= Unit

\* C1: after every update, whatever the previous state and the telemetry
\* (NaN, infinite and out-of-range values included), each of emaSuccess,
\* emaTimeouts, emaLoop, e and g is a finite number within [0, 1].
C1_FieldsInUnitInterval ==
    updates > 0 =>
        /\ InUnit(state.emaSuccess)
        /\ InUnit(state.emaTimeouts)
        /\ InUnit(state.emaLoop)
        /\ InUnit(state.e)
        /\ InUnit(state.g)

\* an update from an out-of-range previous state with NaN and infinite
\* telemetry has been applied
C1_Witness ==
    /\ ctlPc = "updated"
    /\ ~InUnit(prevState.emaLoop)
    /\ telemetry.loopScore = NaN
    /\ telemetry.inputTokens = PosInf
    /\ telemetry.contextWindow = PosInf
    /\ ~telemetry.lastOutcomeSuccess

\* the previous state is one a telemetry history produces: the default
\* state, or the result of an earlier update
FromHistory == updates > 1 \/ prevState = DEFAULT_CONTROL_STATE

\* C2: after an update whose telemetry has lastOutcomeSuccess = true,
\* whatever the previous state, e = 0, g = 0 and emaSuccess = 1; when the
\* previous state comes from a telemetry history, emaSuccess is not below
\* its pre-update value.
C2_SuccessSnapsToCalm ==
    (ctlPc = "updated" /\ telemetry.lastOutcomeSuccess) =>
        /\ state.e = Fin(0)
        /\ state.g = Fin(0)
        /\ state.emaSuccess = Fin(Unit)
        /\ FromHistory =>
              /\ prevState.emaSuccess.k = "fin"
              /\ state.emaSuccess.v >= prevState.emaSuccess.v

\* a success arrives after failures have raised exploration
C2_Witness ==
    /\ ctlPc = "updated"
    /\ FromHistory
    /\ telemetry.lastOutcomeSuccess
    /\ prevState.e.v > 0
    /\ prevState.emaSuccess.v < Unit
    /\ telemetry.timeoutHappened
    /\ telemetry.loopScore = Fin(900)


-----------------------------------------------------------------------------
(* Goal glide as a function of exploration intensity *)

\* the g computeController derives from an e in [0, 1]
GlideAt(e) == smoothstep(e, 550, 900)

\* over the whole of [0, 1], one more thousandth of e lowers g by at most tol
GlideRises(tol) == \A e \in 0..(Unit - 1) : GlideAt(e + 1) >= GlideAt(e) - tol

\* the state to look at the function in: a controller not yet updated
AtStart == updates = 0 /\ state = DEFAULT_CONTROL_STATE

GlideIsLate ==
    /\ state.g.v = GlideAt(state.e.v)
    /\ state.e.v <= 550 => state.g.v = 0
    /\ state.e.v >= 900 => state.g.v = Unit
    /\ state.g.v > 0 => state.e.v > 550

-----------------------------------------------------------------------------
(* The Event Recorder, called directly, one call at a time *)

MaxLogCalls == 3

\* the i-th event of the logger's life (i <= 0: written by an earlier session)
LogEvent(i) == [OldEvent EXCEPT !.step = i]

\* the stored log a new logger may find: the key unset, or an array that an
\* earlier logger wrote (at most MAX_EVENTS events)
StoredLog(n) == [isArray |-> TRUE, items |-> [i \in 1..n |-> LogEvent(i - n)]]
StoredLogs ==
    {[isArray |-> FALSE, items |-> << >>]}
    \cup {StoredLog(n) : n \in {0, 1, MAX_EVENTS - 1, MAX_EVENTS}}

\* new PerformanceLogger() over a stored log
InitLogger ==
    /\ InitController0
    /\ lastMode = "null"
    /\ returnedMode = "null"
    /\ InitIdle
    /\ events = << >>
    /\ loaded = FALSE
    /\ storage \in StoredLogs
    /\ history = storage.items
    /\ writeFailed = FALSE
    /\ logOp = NoLogOp
    /\ logCalls = 0
    /\ logPc = "idle"
    /\ InitRestIdle

LogFrame ==
    /\ UNCHANGED <<ctlVars, mapVars, auxVars>>
    /\ UNCHANGED <<lastMode, call, prevMode, outcome, returnedMode, calls, dirPc>>

\* await logger.addEvent(event)
AddEvent(io) ==
    /\ io = "getFails" => ~loaded
    /\ \E r \in {addEvent(events, loaded, storage, LogEvent(logCalls + 1), io)} :
          /\ events' = r.events
          /\ loaded' = r.loaded
          /\ storage' = r.storage
          /\ history' = IF r.loaded THEN Append(history, LogEvent(logCalls + 1))
                        ELSE history
          /\ writeFailed' = IF r.loaded THEN ~r.ok ELSE writeFailed
          /\ logOp' = [op |-> "addEvent", io |-> io, ok |-> r.ok, result |-> << >>]
    /\ logCalls' = logCalls + 1
    /\ logPc' = "called"
    /\ LogFrame

\* await logger.getEvents()
GetEvents(io) ==
    /\ io # "setFails"
    /\ io = "getFails" => ~loaded
    /\ \E r \in {getEvents(events, loaded, storage, io)} :
          /\ events' = r.events
          /\ loaded' = r.loaded
          /\ logOp' = [op |-> "getEvents", io |-> io, ok |-> r.ok, result |-> r.result]
    /\ logCalls' = logCalls + 1
    /\ logPc' = "called"
    /\ UNCHANGED <<storage, history, writeFailed>>
    /\ LogFrame

\* await logger.clear()
Clear(io) ==
    /\ io # "getFails"
    /\ \E r \in {clear(storage, io)} :
          /\ events' = r.events
          /\ loaded' = r.loaded
          /\ storage' = r.storage
          /\ writeFailed' = ~r.ok
          /\ logOp' = [op |-> "clear", io |-> io, ok |-> r.ok, result |-> << >>]
    /\ history' = << >>
    /\ logCalls' = logCalls + 1
    /\ logPc' = "called"
    /\ LogFrame

\* the caller is done with the call's result
LogStepEnd ==
    /\ logPc = "called"
    /\ logOp' = NoLogOp
    /\ logPc' = "idle"
    /\ UNCHANGED <<events, loaded, storage, history, writeFailed, logCalls>>
    /\ LogFrame

LogStep ==
    /\ logPc = "idle"
    /\ logCalls < MaxLogCalls
    /\ \E io \in StorageRuns : AddEvent(io) \/ GetEvents(io) \/ Clear(io)

NextLogger ==
    \/ LogStep
    \/ LogStepEnd

SpecLogger == InitLogger /\ [][NextLogger]_vars

\* s is the last entries of h, at most MAX_EVENTS of them, in h's order
NewestOf(h, s) ==
    /\ Len(s) = IF Len(h) > 100 THEN 100 ELSE Len(h)
    /\ \A i \in 1..Len(s) : s[i] = h[Len(h) - Len(s) + i]

\* C13: the in-memory log and the persisted log hold at most 100 events;
\* once loaded, the in-memory log is exactly the newest events added (stored
\* ones included, since the last clear), oldest first, and so is the
\* persisted log unless the last write of it was rejected by the storage.
C13_LogIsNewestHundred ==
    /\ Len(events) <= 100
    /\ Len(storage.items) <= 100
    /\ loaded => NewestOf(history, events)
    /\ ~writeFailed => NewestOf(history, storage.items)
    /\ (logPc = "called" /\ logOp.op = "getEvents" /\ logOp.ok)
         => NewestOf(history, logOp.result)

\* events were added to a full stored log: the oldest ones are gone
C13_Witness ==
    /\ logPc = "called"
    /\ logOp.op = "addEvent"
    /\ logOp.ok
    /\ Len(history) = 102
    /\ Len(events) = 100
    /\ events[1].step = -97
    /\ events[100].step = logCalls
    /\ storage.items = events

-----------------------------------------------------------------------------
(* The Parameter Mapper and the Constraint Tuner as the step loop calls them *)

\* exploration and glide values a caller may pass
Explorations ==
    {NaN, NegInf, Fin(-500), Fin(0), Fin(300), Fin(550), Fin(Unit), Fin(3000), PosInf}
Glides ==
    {NaN, NegInf, Fin(-20000), Fin(-500), Fin(0), Fin(400), Fin(410), Fin(Unit),
     Fin(5000), PosInf}

\* the token-buffer hints: none, and ratios to be clamped
Contexts ==
    {[tokenBufferRatio |-> r] : r \in {Undefined, NaN, Fin(500), Fin(2000)}}

Settings(temperature, topP, frequencyPenalty, presencePenalty, maxTokens, topK) ==
    [temperature |-> temperature, top_p |-> topP,
     frequency_penalty |-> frequencyPenalty, presence_penalty |-> presencePenalty,
     max_tokens |-> maxTokens, top_k |-> topK]

\* baselines: two usual ones (with and without top_k), a fractional top_k
\* under a small token budget, and malformed ones
UsualPlanner == Settings(Fin(700), Fin(900), Fin(500), Fin(500), Fin(4096), Fin(40 * Unit))
UsualNavigator == Settings(Fin(200), Fin(600), Fin(0), Fin(0), Fin(2048), Undefined)
Fractional == Settings(Fin(1700), Fin(850), Fin(1900), Fin(1900), Fin(100), Fin(40500))
AllOf(x) == Settings(x, x, x, x, x, x)
Negative == Settings(Fin(-1000), Fin(-500), Fin(-3000), Fin(-3000), Fin(-1000), Fin(-5000))
Large == Settings(Fin(3000), Fin(1500), Fin(5000), Fin(5000), Fin(400000), Fin(3000 * Unit))

DefaultsInputs ==
    {[planner |-> UsualPlanner, navigator |-> UsualNavigator],
     [planner |-> UsualNavigator, navigator |-> UsualPlanner],
     [planner |-> Fractional, navigator |-> Negative],
     [planner |-> Negative, navigator |-> Large],
     [planner |-> Large, navigator |-> Fractional],
     [planner |-> AllOf(NaN), navigator |-> AllOf(PosInf)],
     [planner |-> AllOf(PosInf), navigator |-> AllOf(NegInf)],
     [planner |-> AllOf(NegInf), navigator |-> AllOf(NaN)]}

InitMapper ==
    /\ InitController0
    /\ InitDirector0
    /\ InitRestIdle

MapFrame == UNCHANGED <<ctlVars, dirVars, logVars, auxVars>>

\* settings = directorMap(role, exploration, glide, defaults, ctx)
DirectorMap(role, exploration, glide, defaults, ctx) ==
    /\ mapCall' = [fn |-> "directorMap", role |-> role, exploration |-> exploration,
                   glide |-> glide, defaults |-> defaults, ctx |-> ctx]
    /\ settings' = directorMap(role, exploration, glide, defaults, ctx)
    /\ mapPc' = "mapped"
    /\ UNCHANGED tuning
    /\ MapFrame

\* tuning = constraintTuner(glide)
ConstraintTuner(glide) ==
    /\ mapCall' = [fn |-> "constraintTuner", glide |-> glide]
    /\ tuning' = constraintTuner(glide)
    /\ mapPc' = "tuned"
    /\ UNCHANGED settings
    /\ MapFrame

\* the step ends: the arguments and the results are dropped
MapStepEnd ==
    /\ mapPc # "idle"
    /\ mapCall' = NoMapCall
    /\ settings' = NoSettings
    /\ tuning' = NoTuning
    /\ mapPc' = "idle"
    /\ MapFrame

\* one agent step: sampling parameters or constraints are derived
MapStep ==
    /\ mapPc = "idle"
    /\ \/ \E role \in Roles, exploration \in Explorations, glide \in Glides,
             defaults \in DefaultsInputs, ctx \in Contexts :
               DirectorMap(role, exploration, glide, defaults, ctx)
       \/ \E glide \in Glides : ConstraintTuner(glide)

NextMapper ==
    \/ MapStep
    \/ MapStepEnd

SpecMapper == InitMapper /\ [][NextMapper]_vars

Mapped == mapPc = "mapped"
Baseline == mapCall.defaults[mapCall.role]

\* a finite number within [lo, hi]
Within(x, lo, hi) == x.k = "fin" /\ lo <= x.v /\ x.v <= hi

\* C14: whatever the role, exploration, glide, baseline and token-buffer
\* hint, directorMap returns temperature in [0, 2], top_p in [0, 1], both
\* penalties in [-2, 2], max_tokens in [128, 320000] and, when present,
\* top_k in [1, 2000].
C14_OutputsWithinClamps ==
    Mapped =>
        /\ Within(settings.temperature, 0, 2000)
        /\ Within(settings.top_p, 0, 1000)
        /\ Within(settings.frequency_penalty, -2000, 2000)
        /\ Within(settings.presence_penalty, -2000, 2000)
        /\ Within(settings.max_tokens, 128, 320000)
        /\ "top_k" \in DOMAIN settings => Within(settings.top_k, 1000, 2000000)

\* a NaN exploration and an infinite glide meet an out-of-range baseline
C14_Witness ==
    /\ Mapped
    /\ mapCall.exploration = NaN
    /\ mapCall.glide = NegInf
    /\ Baseline = Large
    /\ mapCall.ctx.tokenBufferRatio = NaN
    /\ settings.frequency_penalty = Fin(2000)
    /\ settings.max_tokens = Fin(128)

\* a <= b on numbers (false when either is NaN)
Leq(a, b) ==
    /\ a.k # "nan"
    /\ b.k # "nan"
    /\ \/ a.k = "ninf"
       \/ b.k = "pinf"
       \/ (a.k = "fin" /\ b.k = "fin" /\ a.v <= b.v)

\* the call made, with another exploration or another glide
MapAtExploration(e) ==
    directorMap(mapCall.role, e, mapCall.glide, mapCall.defaults, mapCall.ctx)
MapAtGlide(g) ==
    directorMap(mapCall.role, mapCall.exploration, g, mapCall.defaults, mapCall.ctx)

TemperatureRises ==
    \A e \in Explorations :
        Leq(mapCall.exploration, e) =>
            /\ settings.temperature.v <= MapAtExploration(e).temperature.v
            /\ settings.top_p.v <= MapAtExploration(e).top_p.v

-----------------------------------------------------------------------------
(* The controller under sustained telemetry: every step reports the same *)

MaxRepeats == 5

\* what a run of like steps may report
SteadyTelemetries ==
    [lastOutcomeSuccess : BOOLEAN, timeoutHappened : BOOLEAN,
     loopScore : {Fin(0), Fin(300), Fin(900), Fin(Unit)},
     inputTokens : {Fin(0), Fin(500)},
     contextWindow : {Fin(0), Fin(1000)}]

\* a task starts: the controller is at DEFAULT_CONTROL_STATE; telemetry is
\* what each of the coming steps will report
InitSteady ==
    /\ state = DEFAULT_CONTROL_STATE
    /\ telemetry \in SteadyTelemetries
    /\ prevState = state
    /\ updates = 0
    /\ ctlPc = "idle"
    /\ InitDirector0
    /\ InitRestIdle

\* state = computeController(state, telemetry), once more
Repeat ==
    /\ updates < MaxRepeats
    /\ state' = computeController(state, telemetry)
    /\ prevState' = state
    /\ updates' = updates + 1
    /\ ctlPc' = "updated"
    /\ UNCHANGED telemetry
    /\ UNCHANGED <<dirVars, logVars, mapVars, auxVars>>

NextSteady == Repeat

SpecSteady == InitSteady /\ [][NextSteady]_vars

\* scenario A: failure with timeout, loopScore 0.9, no context information
ScenarioA ==
    [lastOutcomeSuccess |-> FALSE, timeoutHappened |-> TRUE,
     loopScore |-> Fin(900), inputTokens |-> Fin(0), contextWindow |-> Fin(0)]

\* C16: from {1, 0, 0, 0, 0}, under scenario A's telemetry applied five
\* times, e after each update is strictly greater than after the previous
\* one (0 before the first) and strictly below 1.
C16_ScenarioARisesBelowOne ==
    (telemetry = ScenarioA /\ updates \in 1..5) =>
        /\ prevState.e.v < state.e.v
        /\ state.e.v < Unit

\* the fifth update of scenario A has been applied
C16_Witness ==
    /\ telemetry = ScenarioA
    /\ updates = 5
    /\ prevState.e.v > 750
    /\ state.e.v > 800
    /\ state.e.v < 850

\* the call made, with another exploration and another token-buffer hint
MapAtExplorationAndHint(e, ctx) ==
    directorMap(mapCall.role, e, mapCall.glide, mapCall.defaults, ctx)

\* C18: both penalties are the same whatever the exploration intensity (and
\* the token-buffer hint); neither rises when glide rises; and when the two
\* baselines are the same finite number and glide >= 0, presence_penalty is
\* reduced by no more than frequency_penalty is.
C18_PenaltiesFollowGlideOnly ==
    Mapped =>
        /\ \A e \in Explorations, ctx \in Contexts :
              LET other == MapAtExplorationAndHint(e, ctx)
              IN  /\ other.frequency_penalty = settings.frequency_penalty
                  /\ other.presence_penalty = settings.presence_penalty
        /\ \A g \in Glides :
              Leq(mapCall.glide, g) =>
                  /\ MapAtGlide(g).frequency_penalty.v <= settings.frequency_penalty.v
                  /\ MapAtGlide(g).presence_penalty.v <= settings.presence_penalty.v
        /\ (/\ Baseline.frequency_penalty.k = "fin"
            /\ Baseline.presence_penalty = Baseline.frequency_penalty
            /\ Leq(Fin(0), mapCall.glide))
           => Baseline.presence_penalty.v - settings.presence_penalty.v
                <= Baseline.frequency_penalty.v - settings.frequency_penalty.v

\* full glide under equal baselines of 0.5: frequency_penalty falls to 0.15,
\* presence_penalty to about 0.24
C18_Witness ==
    /\ Mapped
    /\ Baseline = UsualPlanner
    /\ mapCall.glide = Fin(Unit)
    /\ mapCall.exploration = Fin(550)
    /\ settings.frequency_penalty = Fin(150)
    /\ settings.presence_penalty.v > 230
    /\ settings.presence_penalty.v < 240

Whole(x) == x.k = "fin" /\ x.v % Unit = 0
HasTopK == "top_k" \in DOMAIN settings

TopKAsBaseline ==
    /\ HasTopK <=> Baseline.top_k.k # "undefined"
    /\ HasTopK =>
          /\ Within(settings.top_k, Unit, 2000 * Unit)
          /\ Within(Baseline.top_k, Unit, 2000 * Unit)
                => settings.top_k.v >= Baseline.top_k.v

\* C19 as stated: the output has top_k exactly when the baseline has; it is
\* then an integer within [1, 2000], not below a baseline top_k that is
\* within that range.
C19_TopKIntegerWhenPresent ==
    Mapped =>
        /\ TopKAsBaseline
        /\ HasTopK => Whole(settings.top_k)

\* C19: the output has top_k exactly when the baseline has; it is then
\* within [1, 2000], not below a baseline top_k that is within that range,
\* and an integer whenever the baseline top_k is an integer (or not finite).
C19_TopKIntegerForIntegerBaseline ==
    Mapped =>
        /\ TopKAsBaseline
        /\ (HasTopK /\ (Whole(Baseline.top_k) \/ Baseline.top_k.k # "fin"))
              => Whole(settings.top_k)

\* full exploration nudges a baseline top_k of 40 to 52
C19_Witness ==
    /\ Mapped
    /\ Baseline = UsualPlanner
    /\ mapCall.exploration = Fin(Unit)
    /\ HasTopK
    /\ settings.top_k = Fin(52 * Unit)

Tuned == mapPc = "tuned"

\* glide clamped to [0, 1], NaN counting as 0
ClampedGlide ==
    LET g == mapCall.glide
    IN  IF g.k = "nan" \/ g.k = "ninf" THEN 0
        ELSE IF g.k = "pinf" THEN Unit
        ELSE IF g.v < 0 THEN 0
        ELSE IF g.v > Unit THEN Unit
        ELSE g.v

\* C20: whatever the glide, plannerRelaxation is the glide clamped to
\* [0, 1], navigatorBoldness is its square root (to the thousandth below),
\* both are in [0, 1] with navigatorBoldness >= plannerRelaxation, and
\* allowCrossDomainExploration is true exactly when the clamped glide is
\* above 0.4.
C20_TunerFollowsClampedGlide ==
    Tuned =>
        /\ tuning.plannerRelaxation = ClampedGlide
        /\ tuning.navigatorBoldness * tuning.navigatorBoldness <= ClampedGlide * Unit
        /\ ClampedGlide * Unit
             < (tuning.navigatorBoldness + 1) * (tuning.navigatorBoldness + 1)
        /\ tuning.plannerRelaxation \in 0..Unit
        /\ tuning.navigatorBoldness \in 0..Unit
        /\ tuning.navigatorBoldness >= tuning.plannerRelaxation
        /\ tuning.allowCrossDomainExploration <=> ClampedGlide > 400

\* glide 0.41: cross-domain exploration is allowed, boldness is 0.640
C20_Witness ==
    /\ Tuned
    /\ mapCall.glide = Fin(410)
    /\ tuning.allowCrossDomainExploration
    /\ tuning.plannerRelaxation = 410
    /\ tuning.navigatorBoldness = 640
-----------------------------------------------------------------------------
(* From telemetry to sampling parameters: at each step the controller is   *)
(* updated with the step's telemetry and the Parameter Mapper is given the *)
(* new state's e and g                                                     *)

\* the squashed exploration signal of computeController, before the ramp
explorationOf(st, tel) ==
    LET successSample == IF tel.lastOutcomeSuccess THEN Fin(Unit) ELSE Fin(0)
        timeoutSample == IF tel.timeoutHappened THEN Fin(Unit) ELSE Fin(0)
        loopSample == clamp(tel.loopScore, 0, Unit)
        emaSuccess == IF tel.lastOutcomeSuccess /\ SNAP_RESET
                      THEN Unit
                      ELSE ema(st.emaSuccess, successSample, ALPHA_SUCCESS)
        emaTimeouts == ema(st.emaTimeouts, timeoutSample, ALPHA_TIMEOUT)
        emaLoop == ema(st.emaLoop, Fin(loopSample), ALPHA_LOOP)
        failurePressure == Unit - clamp(Fin(emaSuccess), MIN_SUCCESS_EMA, MAX_EMA)
        exploration0 == frictionBudget(failurePressure, emaTimeouts, emaLoop)
    IN  IF GtZero(tel.contextWindow) /\ GeZero(tel.inputTokens)
        THEN LET usageRatio == clamp(Divide(tel.inputTokens, tel.contextWindow), 0, Unit)
             IN  clamp(Fin(exploration0 + (100 * usageRatio) \div Unit), 0, Unit)
        ELSE exploration0

\* the telemetry of a step: outcome, timeout, a loop score and the usage of
\* the context window (none reported, or 900 of 1000 tokens)
Usages == {<<Fin(0), Fin(0)>>, <<Fin(900), Fin(1000)>>}
PipelineTelemetries ==
    {[lastOutcomeSuccess |-> s, timeoutHappened |-> t, loopScore |-> l,
      inputTokens |-> u[1], contextWindow |-> u[2]] :
        s \in BOOLEAN, t \in BOOLEAN, l \in {Fin(0), Fin(900)}, u \in Usages}

\* the token-buffer hints of a step: none, or half
PipelineContexts == {[tokenBufferRatio |-> r] : r \in {Undefined, Fin(500)}}

InitPipeline ==
    /\ InitController0
    /\ InitDirector0

\* state = computeController(state, telemetry)
Sense ==
    /\ ctlPc = "idle"
    /\ mapPc = "idle"
    /\ updates < MaxUpdates
    /\ \E tel \in PipelineTelemetries : Update(tel)

\* settings = directorMap(role, state.e, state.g, defaults, ctx)
Sample ==
    /\ ctlPc = "updated"
    /\ mapPc = "idle"
    /\ \E role \in Roles, defaults \in DefaultsInputs, ctx \in PipelineContexts :
           DirectorMap(role, state.e, state.g, defaults, ctx)

\* the step ends: its telemetry, the replaced state and the settings are
\* dropped
PipelineStepEnd ==
    /\ ctlPc = "updated"
    /\ mapPc = "mapped"
    /\ prevState' = state
    /\ telemetry' = NoTelemetry
    /\ ctlPc' = "idle"
    /\ mapCall' = NoMapCall
    /\ settings' = NoSettings
    /\ mapPc' = "idle"
    /\ UNCHANGED <<state, updates, tuning>>
    /\ UNCHANGED <<dirVars, logVars, auxVars>>

NextPipeline ==
    \/ Sense
    \/ Sample
    \/ PipelineStepEnd

SpecPipeline == InitPipeline /\ [][NextPipeline]_vars

\* the squashed signal of the step's update
Squashed == explorationOf(prevState, telemetry)

\* C21: the softening (power 0.85) is applied by the Parameter Mapper only:
\* the e that computeController stores is the unsoftened squashed signal,
\* and the exploration the mapper's adjustments use is that signal softened
\* once.
C21_SofteningAppliedOnce ==
    (ctlPc = "updated" /\ ~telemetry.lastOutcomeSuccess) =>
        /\ state.e = Fin(Squashed)
        /\ Mapped =>
              settings.temperature =
                  Fin(adjustTemperature(Baseline.temperature,
                                        explorationRamp(Fin(Squashed)),
                                        mapCall.role))

\* what the code does: e is stored softened, and the mapper softens it again
C21_SoftenedTwice ==
    (ctlPc = "updated" /\ ~telemetry.lastOutcomeSuccess) =>
        /\ state.e = Fin(explorationRamp(Fin(Squashed)))
        /\ Mapped =>
              settings.temperature =
                  Fin(adjustTemperature(Baseline.temperature,
                                        explorationRamp(Fin(explorationRamp(Fin(Squashed)))),
                                        mapCall.role))
\* the call is made without a token-buffer hint
NoHint == mapCall.ctx.tokenBufferRatio = Undefined

\* the baseline of the call, each value clamped to its valid range
ClampedBaseline ==
    LET common == [temperature |-> Fin(clamp(Baseline.temperature, 0, 2 * Unit)),
                   top_p |-> Fin(clamp(Baseline.top_p, 0, Unit)),
                   frequency_penalty |->
                       Fin(clamp(Baseline.frequency_penalty, 0 - 2 * Unit, 2 * Unit)),
                   presence_penalty |->
                       Fin(clamp(Baseline.presence_penalty, 0 - 2 * Unit, 2 * Unit)),
                   max_tokens |-> Fin(clamp(Baseline.max_tokens, 128, 320000))]
    IN  IF Baseline.top_k.k # "undefined"
        THEN [f \in DOMAIN common \cup {"top_k"} |->
                 IF f = "top_k" THEN Fin(clamp(Baseline.top_k, Unit, 2000 * Unit))
                 ELSE common[f]]
        ELSE common

\* the step's telemetry reports a success and the mapper has been called
\* with the resulting e and g and no hint
Recovered ==
    /\ ctlPc = "updated"
    /\ telemetry.lastOutcomeSuccess
    /\ Mapped
    /\ NoHint

\* C28 as stated: after a telemetry sequence that ends with a success,
\* directorMap with the resulting e and g and no token-buffer hint returns
\* the role's baseline values, each clamped to its valid range, whatever the
\* baseline.
C28_RecoveryReturnsBaseline == Recovered => settings = ClampedBaseline

\* C28: after a telemetry sequence that ends with a success, directorMap
\* with the resulting e and g and no token-buffer hint returns the role's
\* baseline values, each clamped to its valid range, when the baseline's
\* max_tokens and top_k are not +Infinity; a +Infinity max_tokens or top_k
\* comes back as the minimum of its range (128, 1), the other fields as
\* their clamped baseline.
C28_RecoveryReturnsFiniteBaseline ==
    Recovered =>
        /\ \A f \in {"temperature", "top_p", "frequency_penalty", "presence_penalty"} :
              settings[f] = ClampedBaseline[f]
        /\ settings.max_tokens =
              IF Baseline.max_tokens = PosInf THEN Fin(128)
              ELSE ClampedBaseline.max_tokens
        /\ DOMAIN settings = DOMAIN ClampedBaseline
        /\ "top_k" \in DOMAIN settings =>
              settings.top_k =
                  IF Baseline.top_k = PosInf THEN Fin(Unit)
                  ELSE ClampedBaseline.top_k

\* a success after a failed step that had raised e, mapped for the planner
\* over a usual baseline
C28_Witness ==
    /\ Recovered
    /\ updates = 2
    /\ prevState.e.v > 400
    /\ prevState.emaSuccess.v < Unit
    /\ telemetry.timeoutHappened
    /\ telemetry.contextWindow = Fin(1000)
    /\ mapCall.role = "planner"
    /\ Baseline = UsualPlanner
    /\ settings = [temperature |-> Fin(700), top_p |-> Fin(900),
                   frequency_penalty |-> Fin(500), presence_penalty |-> Fin(500),
                   max_tokens |-> Fin(4096), top_k |-> Fin(40 * Unit)]
-----------------------------------------------------------------------------
(* The director settings store as the options page calls it *)

MaxStoreCalls == 3

\* the Partial<DirectorSettingsConfig> values a caller may pass: fields left
\* out, explicitly undefined, NaN, infinite, out of range and in range
DirectorPartials ==
    [visionScoreOffset : {Omitted, Undefined, NaN, NegInf, Fin(-500), Fin(300), Fin(1700)},
     hysteresisMargin : {Omitted, NaN, PosInf, Fin(1200)},
     preferDomOnTie : {Omitted, Undefined, True, False}]

InitDirectorSettings ==
    /\ InitController0
    /\ InitDirector0

StoFrame == UNCHANGED <<ctlVars, dirVars, logVars, mapVars, recVars>>

\* await directorSettingsStore.updateSettings(partial)
DirectorUpdateSettings(partial) ==
    /\ directorStore' = directorUpdateSettings(directorStore, partial)
    /\ stoCall' = [fn |-> "updateSettings", store |-> "director",
                   partial |-> partial, before |-> directorStore]
    /\ stoCalls' = stoCalls + 1
    /\ UNCHANGED <<generalStore, variant, updating, supplied>>
    /\ StoFrame

\* await directorSettingsStore.getSettings()
DirectorGetSettings ==
    /\ stoCall' = [fn |-> "getSettings", store |-> "director",
                   result |-> directorGetSettings(directorStore)]
    /\ stoCalls' = stoCalls + 1
    /\ UNCHANGED <<directorStore, generalStore, variant, updating, supplied>>
    /\ StoFrame

\* await directorSettingsStore.resetToDefaults()
DirectorResetToDefaults ==
    /\ directorStore' = DEFAULT_DIRECTOR_SETTINGS
    /\ stoCall' = [fn |-> "resetToDefaults", store |-> "director"]
    /\ stoCalls' = stoCalls + 1
    /\ UNCHANGED <<generalStore, variant, updating, supplied>>
    /\ StoFrame

NextDirectorSettings ==
    /\ stoCalls < MaxStoreCalls
    /\ \/ \E partial \in DirectorPartials : DirectorUpdateSettings(partial)
       \/ DirectorGetSettings
       \/ DirectorResetToDefaults

SpecDirectorSettings == InitDirectorSettings /\ [][NextDirectorSettings]_vars

\* C22: after any sequence of updateSettings calls (any partial input: NaN,
\* infinite, negative, above 1, undefined, fields left out) and
\* resetToDefaults calls, getSettings returns visionScoreOffset and
\* hysteresisMargin as numbers within [0, 1] and preferDomOnTie as a
\* boolean, and a field an update leaves out reads as it did before the
\* update.
C22_DirectorSettingsSanitized ==
    /\ stoCall.fn = "getSettings" =>
          /\ InUnit(stoCall.result.visionScoreOffset)
          /\ InUnit(stoCall.result.hysteresisMargin)
          /\ stoCall.result.preferDomOnTie \in {True, False}
    /\ stoCall.fn = "updateSettings" =>
          \A f \in DOMAIN stoCall.partial :
              stoCall.partial[f] = Omitted =>
                  directorGetSettings(directorStore)[f]
                      = directorGetSettings(stoCall.before)[f]

\* an update that leaves out visionScoreOffset, stored as 0.3 by an earlier
\* update, and passes NaN for hysteresisMargin
C22_OmittedKept ==
    /\ stoCall.fn = "updateSettings"
    /\ stoCall.partial.visionScoreOffset = Omitted
    /\ stoCall.partial.hysteresisMargin = NaN
    /\ stoCall.before.visionScoreOffset = Fin(300)
    /\ ~ToBoolean(stoCall.before.preferDomOnTie) = True
    /\ directorStore.visionScoreOffset = Fin(300)
    /\ directorStore.hysteresisMargin = Fin(0)

\* getSettings after an update has stored NaN for an undefined field
C22_Witness ==
    /\ stoCall.fn = "getSettings"
    /\ directorStore.visionScoreOffset = NaN
    /\ directorStore.hysteresisMargin = Fin(Unit)
    /\ stoCall.result.visionScoreOffset = Fin(0)
-----------------------------------------------------------------------------
(* The general settings store as the options page calls it: updateSettings *)
(* reads the stored value, then writes the merged one, and another call    *)
(* may run between the two                                                 *)

\* a Partial<GeneralSettingsConfig> with the given fields
PartialOf(v, given) ==
    [f \in DOMAIN DEFAULT_GENERAL_SETTINGS(v) |->
        IF f \in DOMAIN given THEN given[f] ELSE Omitted]

\* the partial settings a caller may pass
GeneralPartials(v) ==
    {PartialOf(v, given) : given \in
        {[maxSteps |-> Fin(50)],
         [maxSteps |-> Fin(200), useVision |-> False],
         [useVision |-> False, useVisionForPlanner |-> False],
         [planningInterval |-> Fin(5), displayHighlights |-> False],
         [replayHistoricalTasks |-> False, minWaitPageLoad |-> Fin(500),
          visionNavigationRatio |-> Fin(1700)]}}

InitGeneralSettings ==
    /\ InitController0
    /\ lastMode = "null"
    /\ events = << >>
    /\ loaded = FALSE
    /\ storage = [isArray |-> FALSE, items |-> << >>]
    /\ returnedMode = "null"
    /\ InitIdle
    /\ InitLogIdle
    /\ InitMapIdle
    /\ directorStore = DEFAULT_DIRECTOR_SETTINGS
    /\ variant \in Variants
    /\ generalStore = DEFAULT_GENERAL_SETTINGS(variant)
    /\ updating = [c \in Callers |-> NoUpdate]
    /\ supplied = [maxSteps |-> DEFAULT_GENERAL_SETTINGS(variant).maxSteps,
                   reset |-> FALSE, overlapped |-> FALSE]
    /\ stoCall = NoStoCall
    /\ stoCalls = 0
    /\ InitRecIdle

\* generalSettingsStore.updateSettings(partial) is called and reads
\* currentSettings
GeneralUpdateRead(c, partial) ==
    /\ updating[c].pc = "idle"
    /\ updating' = [updating EXCEPT ![c] =
                       [pc |-> "read", partial |-> partial,
                        currentSettings |-> generalStore]]
    /\ supplied' = [supplied EXCEPT
                       !.maxSteps = IF partial.maxSteps = Omitted THEN @
                                    ELSE partial.maxSteps,
                       !.overlapped = @ \/ \E d \in Callers : updating[d].pc = "read"]
    /\ stoCalls' = stoCalls + 1
    /\ UNCHANGED <<directorStore, generalStore, variant, stoCall>>
    /\ StoFrame

\* the call writes updatedSettings and returns
GeneralUpdateWrite(c) ==
    /\ updating[c].pc = "read"
    /\ generalStore' = generalUpdatedSettings(variant, updating[c].currentSettings,
                                              updating[c].partial)
    /\ updating' = [updating EXCEPT ![c] = NoUpdate]
    /\ stoCall' = [fn |-> "updateSettings", store |-> "general",
                   partial |-> updating[c].partial]
    /\ UNCHANGED <<directorStore, variant, supplied, stoCalls>>
    /\ StoFrame

\* await generalSettingsStore.getSettings()
GeneralGetSettings ==
    /\ stoCall' = [fn |-> "getSettings", store |-> "general",
                   result |-> generalGetSettings(variant, generalStore)]
    /\ stoCalls' = stoCalls + 1
    /\ UNCHANGED <<directorStore, generalStore, variant, updating, supplied>>
    /\ StoFrame

\* await generalSettingsStore.resetToDefaults()
GeneralResetToDefaults ==
    /\ generalStore' = DEFAULT_GENERAL_SETTINGS(variant)
    /\ supplied' = [supplied EXCEPT !.reset = TRUE]
    /\ stoCall' = [fn |-> "resetToDefaults", store |-> "general"]
    /\ stoCalls' = stoCalls + 1
    /\ UNCHANGED <<directorStore, variant, updating>>
    /\ StoFrame

GeneralCall ==
    /\ stoCalls < MaxStoreCalls
    /\ \/ \E c \in Callers, partial \in GeneralPartials(variant) :
              GeneralUpdateRead(c, partial)
       \/ GeneralGetSettings
       \/ GeneralResetToDefaults

NextGeneralSettings ==
    \/ GeneralCall
    \/ \E c \in Callers : GeneralUpdateWrite(c)

SpecGeneralSettings == InitGeneralSettings /\ [][NextGeneralSettings]_vars

\* getSettings has returned after updateSettings calls only, all completed
ReadAfterUpdates ==
    /\ stoCall.fn = "getSettings"
    /\ ~supplied.reset
    /\ \A c \in Callers : updating[c].pc = "idle"

\* C23: after any sequence of updateSettings calls with arbitrary partial
\* settings, getSettings returns useVision = true and useVisionForPlanner =
\* true, and maxSteps equal to the value most recently passed for it (its
\* default if none was).
C23_VisionForcedLastSuppliedKept ==
    ReadAfterUpdates =>
        /\ stoCall.result.useVision = True
        /\ stoCall.result.useVisionForPlanner = True
        /\ stoCall.result.maxSteps = supplied.maxSteps

\* the forced fields hold for every sequence of calls
C23_VisionForced ==
    stoCall.fn = "getSettings" =>
        /\ stoCall.result.useVision = True
        /\ stoCall.result.useVisionForPlanner = True

\* maxSteps is the value most recently passed when no updateSettings call
\* was issued while another was in flight
C23_LastSuppliedKeptWhenAwaited ==
    (ReadAfterUpdates /\ ~supplied.overlapped) =>
        stoCall.result.maxSteps = supplied.maxSteps
-----------------------------------------------------------------------------
(* The Arbitrator under constant input: the step loop repeats the call     *)
(* with the proposals and options of the first one                         *)

MaxRepeatCalls == 3

\* the first call of the run, with any proposals and options
ChooseFirst ==
    /\ dirPc = "idle"
    /\ calls = 0
    /\ \E proposals \in ProposalLists, options \in OptionInputs, io \in StorageRuns :
          Choose(proposals, options, io)

\* the next call, with the proposals and options of the call before
ChooseAgain ==
    /\ dirPc = "called"
    /\ calls < MaxRepeatCalls
    /\ \E io \in StorageRuns : Choose(call.proposals, call.options, io)

NextRepeat ==
    \/ ChooseFirst
    \/ ChooseAgain

SpecRepeat == InitDirector /\ [][NextRepeat]_vars

\* the proposals given have at most one candidate per mode
AtMostOnePerMode ==
    \A i, j \in 1..Len(Given) : Given[i].mode = Given[j].mode => i = j

\* C24: when choose is called repeatedly on one Arbitrator with the same
\* proposals (at most one per mode) and the same options, the selection of
\* every call after the first (the remembered mode, and the mode of the
\* decision when the call returns one) is the selection of the call before,
\* whatever the previous mode was before the first call.
C24_NoThrashingUnderConstantInput ==
    (Called /\ calls >= 2 /\ AtMostOnePerMode) =>
        /\ lastMode = prevMode
        /\ Returned => outcome.proposal.mode = prevMode

\* the third call with DOM 0.50 / Vision 0.47 and default options keeps DOM
\* by hysteresis, as the second did
C24_Witness ==
    /\ Returned
    /\ calls = 3
    /\ call.options = << >>
    /\ Given = <<ProposalOf("dom", 500, 1), ProposalOf("vision", 470, 2)>>
    /\ prevMode = "dom"
    /\ outcome.proposal.mode = "dom"
    /\ outcome.rationale.kind = "hysteresis"
-----------------------------------------------------------------------------
(* The Event Recorder under concurrent calls: a call runs up to its await, *)
(* the storage requests settle later, and the calls whose await has        *)
(* settled resume in the order they were queued. chrome.storage.local      *)
(* serves its requests in the order they are made: a get returns the value *)
(* stored when it is made, a set stores its value when it is made.         *)

MaxRecCalls == 3

ItemsOf(s) == {s[i] : i \in 1..Len(s)}

\* the stored log the loggers may find: the key unset, one event, or one
\* event short of MAX_EVENTS
RecStoredLogs ==
    {[isArray |-> FALSE, items |-> << >>], StoredLog(1), StoredLog(MAX_EVENTS - 1)}

\* a load that forgets what it has read
eventsLoadedDropped(logger) == logger.events

\* this.events once the load has read the stored value (ensureLoaded)
eventsLoaded(logger) ==
    IF logger.reading.isArray
    THEN SliceLast(logger.reading.items, MAX_EVENTS)
    ELSE logger.events

\* this.events after addEvent has pushed the event
eventsPushed(logger, event) == SliceLast(Append(logger.events, event), MAX_EVENTS)

\* the calls on logger l that wait for its load, in call order
WaitingOf(l) ==
    LET Waits(i) == tasks[i].logger = l /\ tasks[i].pc = "waiting"
    IN  SelectSeq([i \in 1..Len(tasks) |-> i], Waits)

\* the events of this run in log that were not persisted before
NewlyPersisted(log, before) ==
    LET New(e) == e.step > 0 /\ e \notin ItemsOf(before)
    IN  SelectSeq(log, New)

InitRecorder ==
    /\ InitController0
    /\ lastMode = "null"
    /\ events = << >>
    /\ loaded = FALSE
    /\ storage = [isArray |-> FALSE, items |-> << >>]
    /\ returnedMode = "null"
    /\ InitIdle
    /\ InitLogIdle
    /\ InitMapIdle
    /\ InitStoresIdle
    /\ rec = [l \in Loggers |-> NewLogger]
    /\ recStorage \in RecStoredLogs
    /\ tasks = << >>
    /\ ready = << >>
    /\ audit = [NoAudit EXCEPT !.initial = recStorage.items]

RecFrame == UNCHANGED <<ctlVars, dirVars, logVars, mapVars, stoVars>>

\* logger.addEvent(LogEvent(t)) or logger.getEvents() is called on logger l
\* as the t-th call: ensureLoaded runs up to its await
RecCall(l, op) ==
    /\ Len(tasks) < MaxRecCalls
    /\ LET t == Len(tasks) + 1
           Frame(pc) == [op |-> op, logger |-> l, pc |-> pc, result |-> << >>,
                         afterClears |-> 0, waited |-> pc = "waiting"]
       IN  IF rec[l].loaded
           THEN /\ tasks' = Append(tasks, Frame("ready"))
                /\ ready' = Append(ready, t)
                /\ UNCHANGED <<rec, audit>>
           ELSE /\ tasks' = Append(tasks, Frame("waiting"))
                /\ UNCHANGED ready
                /\ IF rec[l].loading
                   THEN UNCHANGED <<rec, audit>>
                   ELSE /\ rec' = [rec EXCEPT ![l].loading = TRUE,
                                              ![l].reading = recStorage]
                        /\ audit' = [audit EXCEPT !.reads[l] = @ + 1]
    /\ UNCHANGED recStorage
    /\ RecFrame

\* logger.clear() is called on logger l; its set is accepted or rejected
RecClear(l, io) ==
    /\ Len(tasks) < MaxRecCalls
    /\ rec' = [rec EXCEPT ![l].events = << >>, ![l].loaded = TRUE]
    /\ recStorage' = IF io = "ok" THEN [isArray |-> TRUE, items |-> << >>]
                     ELSE recStorage
    /\ tasks' = Append(tasks, [op |-> "clear", logger |-> l,
                               pc |-> IF io = "ok" THEN "done" ELSE "unsaved",
                               result |-> << >>, afterClears |-> 0,
                               waited |-> FALSE])
    /\ audit' = [audit EXCEPT
                    !.clears[l] = @ + 1,
                    !.midLoad = @ \/ rec[l].loading,
                    !.wiped = IF io = "ok"
                              THEN @ \cup ItemsOf(rec[l].events)
                                     \cup ItemsOf(recStorage.items)
                              ELSE @,
                    !.setOk = (io = "ok")]
    /\ UNCHANGED ready
    /\ RecFrame

\* the get of logger l's load settles with the value it read: the load's
\* continuation runs and the calls waiting for the load are queued
RecLoaded(l) ==
    /\ rec[l].loading
    /\ rec' = [rec EXCEPT ![l].events = eventsLoaded(rec[l]),
                          ![l].loaded = TRUE,
                          ![l].loading = FALSE]
    /\ tasks' = [i \in 1..Len(tasks) |->
                    IF tasks[i].logger = l /\ tasks[i].pc = "waiting"
                    THEN [tasks[i] EXCEPT !.pc = "ready"]
                    ELSE tasks[i]]
    /\ ready' = ready \o WaitingOf(l)
    /\ UNCHANGED <<recStorage, audit>>
    /\ RecFrame

\* the get of logger l's load rejects: loadingPromise is reset and rejects,
\* and so does every call waiting for it
RecLoadFailed(l) ==
    /\ rec[l].loading
    /\ rec' = [rec EXCEPT ![l].loading = FALSE]
    /\ tasks' = [i \in 1..Len(tasks) |->
                    IF tasks[i].logger = l /\ tasks[i].pc = "waiting"
                    THEN [tasks[i] EXCEPT !.pc = "rejected"]
                    ELSE tasks[i]]
    /\ audit' = [audit EXCEPT !.failedLoads[l] = @ + 1]
    /\ UNCHANGED <<recStorage, ready>>
    /\ RecFrame

\* the first queued call resumes after await this.ensureLoaded(): addEvent
\* pushes its event and makes its set (accepted or rejected), getEvents
\* returns a copy of the log
RecResume(io) ==
    /\ ready # << >>
    /\ ready' = Tail(ready)
    /\ LET t == Head(ready)
           l == tasks[t].logger
           log == eventsPushed(rec[l], LogEvent(t))
       IN  IF tasks[t].op = "addEvent"
           THEN /\ rec' = [rec EXCEPT ![l].events = log]
                /\ recStorage' = IF io = "ok" THEN [isArray |-> TRUE, items |-> log]
                                 ELSE recStorage
                /\ tasks' = [tasks EXCEPT
                                ![t].pc = IF io = "ok" THEN "done" ELSE "unsaved"]
                /\ audit' = [audit EXCEPT
                                !.setOk = (io = "ok"),
                                !.everPersisted =
                                    IF io = "ok" THEN @ \o NewlyPersisted(log, @)
                                    ELSE @]
           ELSE /\ io = "ok"
                /\ tasks' = [tasks EXCEPT ![t].pc = "done",
                                          ![t].result = rec[l].events,
                                          ![t].afterClears = audit.clears[l]]
                /\ UNCHANGED <<rec, recStorage, audit>>
    /\ RecFrame

\* one logger, called by several callers
NextRecorder ==
    \/ \E op \in {"addEvent", "getEvents"} : RecCall(1, op)
    \/ \E io \in {"ok", "setFails"} : RecClear(1, io)
    \/ RecLoaded(1)
    \/ RecLoadFailed(1)
    \/ \E io \in {"ok", "setFails"} : RecResume(io)

SpecRecorder == InitRecorder /\ [][NextRecorder]_vars
\* the events that were in the log (in memory or persisted) when a clear
\* was called are neither in the persisted log nor in the result of a
\* getEvents that returned after the clear
WipedStayOut ==
    /\ audit.wiped \cap ItemsOf(recStorage.items) = {}
    /\ \A t \in 1..Len(tasks) :
          (tasks[t].op = "getEvents" /\ tasks[t].pc = "done"
           /\ tasks[t].afterClears > 0)
          => audit.wiped \cap ItemsOf(tasks[t].result) = {}

\* C25: once clear() has been called (and its write accepted), the events
\* that were in the log before the clear never reappear in a later
\* getEvents result or persisted log, even when clear is called while the
\* logger's initial load is in flight.
C25_ClearedEventsNeverReappear == WipedStayOut

\* the same, for clears called while no load is in flight
C25_ClearedStayOutUnlessMidLoad == ~audit.midLoad => WipedStayOut
-----------------------------------------------------------------------------
(* Calls issued on one logger before its load has completed                *)

\* only addEvent and getEvents have been called on the logger
NoClears == audit.clears[1] = 0

\* every call issued has completed
Quiescent == ready = << >> /\ ~rec[1].loading

\* the events of the addEvent calls that were not rejected by a failed
\* load, in call order
AddedInCallOrder ==
    LET Added(i) == tasks[i].op = "addEvent" /\ tasks[i].pc \in {"done", "unsaved"}
        added == SelectSeq([i \in 1..Len(tasks) |-> i], Added)
    IN  [k \in 1..Len(added) |-> LogEvent(added[k])]

\* the stored events followed by the added ones, within the 100-entry bound
ExpectedLog == SliceLast(audit.initial \o AddedInCallOrder, MAX_EVENTS)

\* storage is read once per load attempt, and not again after a load has
\* succeeded; once all calls have completed, the log in memory is the stored
\* events followed by the added ones in call order, and so is the persisted
\* log when the last write was accepted; no call is rejected unless a load
\* failed
SharedLoadKeepsOrder ==
    NoClears =>
        /\ audit.reads[1] <= audit.failedLoads[1] + 1
        /\ rec[1].loaded => ~rec[1].loading
        /\ Quiescent =>
              /\ rec[1].loaded => rec[1].events = ExpectedLog
              /\ ~rec[1].loaded => AddedInCallOrder = << >>
              /\ (audit.setOk /\ AddedInCallOrder # << >>) =>
                    recStorage = [isArray |-> TRUE, items |-> ExpectedLog]
              /\ audit.failedLoads[1] = 0 =>
                    \A t \in 1..Len(tasks) : tasks[t].pc # "rejected"

\* a failed load leaves the logger not loaded with no load in flight, and a
\* call on a logger in that state starts a load
FailedLoadIsRetried ==
    NoClears =>
        /\ audit'.failedLoads[1] > audit.failedLoads[1] =>
              ~rec'[1].loaded /\ ~rec'[1].loading
        /\ (Len(tasks') > Len(tasks) /\ ~rec[1].loaded /\ ~rec[1].loading
            /\ audit'.clears[1] = 0) =>
              /\ rec'[1].loading
              /\ audit'.reads[1] = audit.reads[1] + 1

\* C27: when several calls are issued on one logger before its load has
\* completed, storage is read only once and not again after a successful
\* load; once all calls have completed every added event is in memory and
\* in the persisted log (when the last write was accepted), after the
\* stored events and in call order, within the 100-entry bound; a failed
\* load leaves the logger not loaded and a later call retries it.
C27_SharedLoadThenOrderedAppends ==
    [](SharedLoadKeepsOrder) /\ [][FailedLoadIsRetried]_vars

\* three addEvent calls were issued during one load over 99 stored events;
\* all have completed and the log holds the newest 100 of the 102
C27_Witness ==
    /\ Quiescent
    /\ NoClears
    /\ Len(audit.initial) = MAX_EVENTS - 1
    /\ Len(tasks) = 3
    /\ \A t \in 1..3 : tasks[t].op = "addEvent" /\ tasks[t].waited
                       /\ tasks[t].pc = "done"
    /\ audit.reads[1] = 1
    /\ Len(rec[1].events) = MAX_EVENTS
    /\ rec[1].events[MAX_EVENTS] = LogEvent(3)
    /\ rec[1].events[MAX_EVENTS - 1] = LogEvent(2)
    /\ recStorage.items = rec[1].events

-----------------------------------------------------------------------------
(* Several Arbitrator instances, each with its own PerformanceLogger over  *)
(* the same storage key, recording decisions in any interleaving           *)

NextShared ==
    \/ \E l \in Loggers : RecCall(l, "addEvent")
    \/ \E l \in Loggers : RecLoaded(l)
    \/ \E l \in Loggers : RecLoadFailed(l)
    \/ \E io \in {"ok", "setFails"} : RecResume(io)

SpecShared == InitRecorder /\ [][NextShared]_vars

\* C26: an event persisted by one instance stays in the persisted log,
\* whatever the other instances write, until at least 100 newer events have
\* been persisted.
C26_PersistedEventsSurvive ==
    \A i \in 1..Len(audit.everPersisted) :
        Len(audit.everPersisted) - i < MAX_EVENTS
        => audit.everPersisted[i] \in ItemsOf(recStorage.items)

\* the same, while only one instance has written
C26_SurviveOwnWrites ==
    (\A t \in 1..Len(tasks) : tasks[t].logger = 1) => C26_PersistedEventsSurvive
=============================================================================
